---- MODULE Spec2Model ----
(***************************************************************************)
(* TubeWise summarization pipeline: the chunker, the relevance scorer, the *)
(* frequency summarizer, key-point extraction, the retry loops around the  *)
(* completion endpoint and the comparison fallback, each as the state      *)
(* machine of the Python code under services/ai-service.                   *)
(*                                                                         *)
(* Text is modelled as a sequence of one-character strings, so that the    *)
(* str.split / re.split calls of the code are computed and not assumed.    *)
(* Every component owns one variable holding a record of the locals of its *)
(* code; a component that takes no part in a specification stays Idle.     *)
(***************************************************************************)
EXTENDS Integers, Sequences, FiniteSets, TLC

VARIABLES chunker, relevance, freq, keypoints, generation, server,
          comparison, orchestrator,
          process,
          longtext,
          chunked,
          segments,
          timeline,
          pipeline,
          extractive,
          endpoint,
          tasks,
          thread,
          chat

vars == <<chunker, relevance, freq, keypoints, generation, server, comparison,
         orchestrator,
         process,
         longtext,
         chunked,
         segments,
         timeline,
         pipeline,
         extractive,
         endpoint,
         tasks,
         thread,
         chat>>

Idle == [pc |-> "idle"]

\* the components other than `running` start Idle and are left alone
IdleBut(running) ==
    /\ IF running = "chunker" THEN TRUE ELSE chunker = Idle
    /\ IF running = "relevance" THEN TRUE ELSE relevance = Idle
    /\ IF running = "freq" THEN TRUE ELSE freq = Idle
    /\ IF running = "keypoints" THEN TRUE ELSE keypoints = Idle
    /\ IF running = "generation" THEN TRUE ELSE generation = Idle
    /\ IF running = "server" THEN TRUE ELSE server = Idle
    /\ IF running = "comparison" THEN TRUE ELSE comparison = Idle
    /\ IF running = "orchestrator" THEN TRUE ELSE orchestrator = Idle
    /\ IF running = "process" THEN TRUE ELSE process = Idle
    /\ IF running = "longtext" THEN TRUE ELSE longtext = Idle
    /\ IF running = "chunked" THEN TRUE ELSE chunked = Idle
    /\ IF running = "segments" THEN TRUE ELSE segments = Idle
    /\ IF running = "timeline" THEN TRUE ELSE timeline = Idle
    /\ IF running = "pipeline" THEN TRUE ELSE pipeline = Idle
    /\ IF running = "extractive" THEN TRUE ELSE extractive = Idle
    /\ IF running = "endpoint" THEN TRUE ELSE endpoint = Idle
    /\ IF running = "tasks" THEN TRUE ELSE tasks = Idle
    /\ IF running = "thread" THEN TRUE ELSE thread = Idle
    /\ IF running = "chat" THEN TRUE ELSE chat = Idle

Frame(running) ==
    /\ IF running = "chunker" THEN TRUE ELSE UNCHANGED chunker
    /\ IF running = "relevance" THEN TRUE ELSE UNCHANGED relevance
    /\ IF running = "freq" THEN TRUE ELSE UNCHANGED freq
    /\ IF running = "keypoints" THEN TRUE ELSE UNCHANGED keypoints
    /\ IF running = "generation" THEN TRUE ELSE UNCHANGED generation
    /\ IF running = "server" THEN TRUE ELSE UNCHANGED server
    /\ IF running = "comparison" THEN TRUE ELSE UNCHANGED comparison
    /\ IF running = "orchestrator" THEN TRUE ELSE UNCHANGED orchestrator
    /\ IF running = "process" THEN TRUE ELSE UNCHANGED process
    /\ IF running = "longtext" THEN TRUE ELSE UNCHANGED longtext
    /\ IF running = "chunked" THEN TRUE ELSE UNCHANGED chunked
    /\ IF running = "segments" THEN TRUE ELSE UNCHANGED segments
    /\ IF running = "timeline" THEN TRUE ELSE UNCHANGED timeline
    /\ IF running = "pipeline" THEN TRUE ELSE UNCHANGED pipeline
    /\ IF running = "extractive" THEN TRUE ELSE UNCHANGED extractive
    /\ IF running = "endpoint" THEN TRUE ELSE UNCHANGED endpoint
    /\ IF running = "tasks" THEN TRUE ELSE UNCHANGED tasks
    /\ IF running = "thread" THEN TRUE ELSE UNCHANGED thread
    /\ IF running = "chat" THEN TRUE ELSE UNCHANGED chat

(***************************************************************************)
(* Bounds of the model.                                                    *)
(***************************************************************************)
MaxTextLen == 6
MaxChunkSize == 2

(***************************************************************************)
(* Characters and the str methods the code uses.                           *)
(***************************************************************************)
Alphabet == {"a", "A", ".", " ", "\n"}

IsSpace(c) == c \in {" ", "\n"}
IsUpper(c) == c \in {"A", "B", "P", "I", "X"}
IsLower(c) == c \in {"a", "b", "c", "d", "e", "n", "o", "t", "r", "v", "i"}
IsDigit(c) == c \in {"0", "1", "2", "3", "4", "5", "6", "7", "8", "9"}
IsWordChar(c) == IsUpper(c) \/ IsLower(c) \/ IsDigit(c) \/ c = "_"
IsSentenceEnd(c) == c \in {".", "?", "!"}

Strings(chars, n) == UNION {[1..k -> chars] : k \in 0..n}

\* len(s.split()): the number of maximal runs of non-whitespace characters
WordCount(s) ==
    Cardinality({i \in 1..Len(s) : ~IsSpace(s[i]) /\ (i = 1 \/ IsSpace(s[i-1]))})

\* the start positions of the words of s, in order (s.split())
RECURSIVE WordsFrom(_, _, _)
WordsFrom(s, i, cur) ==
    IF i > Len(s) THEN (IF cur = <<>> THEN <<>> ELSE <<cur>>)
    ELSE IF IsSpace(s[i])
         THEN (IF cur = <<>> THEN <<>> ELSE <<cur>>) \o WordsFrom(s, i + 1, <<>>)
         ELSE WordsFrom(s, i + 1, Append(cur, s[i]))

Words(s) == WordsFrom(s, 1, <<>>)

\* sep.join(units)
RECURSIVE Join(_, _)
Join(units, sep) ==
    IF units = <<>> THEN <<>>
    ELSE IF Len(units) = 1 THEN units[1]
    ELSE units[1] \o sep \o Join(Tail(units), sep)

\* text.split('\n\n'): leftmost non-overlapping occurrences of the separator
RECURSIVE SplitParagraphsFrom(_, _, _)
SplitParagraphsFrom(s, i, cur) ==
    IF i > Len(s) THEN <<cur>>
    ELSE IF i < Len(s) /\ s[i] = "\n" /\ s[i+1] = "\n"
         THEN <<cur>> \o SplitParagraphsFrom(s, i + 2, <<>>)
         ELSE SplitParagraphsFrom(s, i + 1, Append(cur, s[i]))

SplitParagraphs(s) == SplitParagraphsFrom(s, 1, <<>>)

\* r'(?<!\.\w.)(?<![A-Z][a-z]\.)(?<=\.|\?|\!)\s' matches the one character s[i]
SentenceBreak(s, i) ==
    /\ IsSpace(s[i])
    /\ i > 1 /\ IsSentenceEnd(s[i-1])
    /\ ~(i > 3 /\ s[i-3] = "." /\ IsWordChar(s[i-2]) /\ s[i-1] # "\n")
    /\ ~(i > 3 /\ IsUpper(s[i-3]) /\ IsLower(s[i-2]) /\ s[i-1] = ".")

\* re.split(pattern, text): the pieces between the matches, the matches dropped
RECURSIVE SplitSentencesFrom(_, _, _)
SplitSentencesFrom(s, i, cur) ==
    IF i > Len(s) THEN <<cur>>
    ELSE IF SentenceBreak(s, i)
         THEN <<cur>> \o SplitSentencesFrom(s, i + 1, <<>>)
         ELSE SplitSentencesFrom(s, i + 1, Append(cur, s[i]))

SplitSentences(s) == SplitSentencesFrom(s, 1, <<>>)

(***************************************************************************)
(* OpenAISummarizer._split_into_chunks / _combine_units                    *)
(***************************************************************************)
\* paragraphs, or sentences when there are fewer than 3 paragraphs
SplitUnits(text) ==
    IF Len(SplitParagraphs(text)) < 3 THEN SplitSentences(text)
    ELSE SplitParagraphs(text)

FitsLoose(current_size, unit_size, chunk_size) == current_size <= chunk_size

FitsStrict(current_size, unit_size, chunk_size) == current_size + unit_size < chunk_size

\* if current_size + unit_size <= chunk_size
Fits(current_size, unit_size, chunk_size) == current_size + unit_size <= chunk_size

\* if current_chunk: chunks.append(' '.join(current_chunk))
FlushChunk(chunks, current_chunk) ==
    IF current_chunk # <<>> THEN Append(chunks, Join(current_chunk, <<" ">>))
    ELSE chunks

\* one iteration of the for loop of _combine_units
CombineUnit(st, unit, chunk_size) ==
    LET unit_size == WordCount(unit) IN
    IF Fits(st.current_size, unit_size, chunk_size)
    THEN [st EXCEPT !.current_chunk = Append(@, unit),
                    !.current_size = @ + unit_size]
    ELSE [st EXCEPT !.chunks = FlushChunk(@, st.current_chunk),
                    !.current_chunk = <<unit>>,
                    !.current_size = unit_size]

ChunkerInit ==
    /\ \E text \in Strings(Alphabet, MaxTextLen), chunk_size \in 0..MaxChunkSize :
          chunker = [pc |-> "split", text |-> text, chunk_size |-> chunk_size,
                     units |-> <<>>, i |-> 0, groups |-> <<>>,
                     chunks |-> <<>>, current_chunk |-> <<>>, current_size |-> 0]
    /\ IdleBut("chunker")

\* _split_into_chunks up to the call of _combine_units
SplitIntoChunks ==
    /\ chunker.pc = "split"
    /\ chunker' = [chunker EXCEPT !.pc = "combine",
                                  !.units = SplitUnits(chunker.text),
                                  !.i = 1]
    /\ Frame("chunker")

\* for unit in units: ...
CombineUnits ==
    /\ chunker.pc = "combine"
    /\ chunker.i <= Len(chunker.units)
    /\ LET unit == chunker.units[chunker.i]
           st == CombineUnit(chunker, unit, chunker.chunk_size)
       IN chunker' = [st EXCEPT !.i = @ + 1,
                                !.groups = IF st.chunks # chunker.chunks
                                           THEN Append(@, chunker.current_chunk)
                                           ELSE @]
    /\ Frame("chunker")

\* the flush after the loop, and return chunks
ReturnChunks ==
    /\ chunker.pc = "combine"
    /\ chunker.i > Len(chunker.units)
    /\ chunker' = [chunker EXCEPT !.pc = "done",
                                  !.chunks = FlushChunk(@, chunker.current_chunk),
                                  !.groups = IF chunker.current_chunk # <<>>
                                             THEN Append(@, chunker.current_chunk)
                                             ELSE @]
    /\ Frame("chunker")

ChunkerNext == SplitIntoChunks \/ CombineUnits \/ ReturnChunks

SpecChunker == ChunkerInit /\ [][ChunkerNext]_vars

ChunkerDone == chunker.pc = "done"

\* C1: the chunks, joined by single spaces, are the units joined by single
\* spaces (every unit, in order, once), they hold the words of the text in
\* order, and a chunk of more than chunk_size words is one unit on its own.
C1_ChunksKeepUnitsWithinBound ==
    ChunkerDone =>
        /\ Join(chunker.chunks, <<" ">>) = Join(chunker.units, <<" ">>)
        /\ Words(Join(chunker.chunks, <<" ">>)) = Words(chunker.text)
        /\ Len(chunker.groups) = Len(chunker.chunks)
        /\ \A k \in 1..Len(chunker.chunks) :
              /\ chunker.chunks[k] = Join(chunker.groups[k], <<" ">>)
              /\ WordCount(chunker.chunks[k]) > chunker.chunk_size
                    => Len(chunker.groups[k]) = 1

\* a run that ends with a chunk of several units and a chunk over the bound
C1_Witness ==
    /\ ChunkerDone
    /\ \E k \in 1..Len(chunker.chunks) : Len(chunker.groups[k]) >= 2
    /\ \E k \in 1..Len(chunker.chunks) :
          WordCount(chunker.chunks[k]) > chunker.chunk_size
    /\ chunker.chunk_size >= 1

\* C2: no returned chunk has zero words, unless the input has no words (an
\* empty or blank text); stated for chunk sizes of at least one word.
C2_NoEmptyChunk ==
    ChunkerDone =>
        \/ WordCount(chunker.text) = 0
        \/ chunker.chunk_size = 0
        \/ \A k \in 1..Len(chunker.chunks) : WordCount(chunker.chunks[k]) > 0

\* C3: a text of exactly chunk_size words comes back as exactly one chunk.
C3_ExactSizeOneChunk ==
    ChunkerDone /\ WordCount(chunker.text) = chunker.chunk_size
        => Len(chunker.chunks) = 1

\* a text of exactly chunk_size words that was divided into several units
C3_Witness ==
    /\ ChunkerDone
    /\ WordCount(chunker.text) = chunker.chunk_size
    /\ chunker.chunk_size >= 2
    /\ Len(chunker.units) >= 2
    /\ Len(chunker.chunks) = 1

(***************************************************************************)
(* Relevance scorer: api_server.calculate_relevance and                    *)
(* ImprovedChatAgent._calculate_relevance.  A float score matches / n is   *)
(* kept as the fraction [num, den]; 0.0 is 0/1.                           *)
(***************************************************************************)
MaxKeywords == 2
MaxSegmentLen == 3

RelevanceAlphabet == {"a", "B", " "}

Range(f) == {f[i] : i \in DOMAIN f}

\* str.lower()
Lower(s) == [i \in DOMAIN s |-> CASE s[i] = "A" -> "a" [] s[i] = "B" -> "b" [] OTHER -> s[i]]

\* keyword in text
IsSubstring(k, t) ==
    \E i \in 0..(Len(t) - Len(k)) : SubSeq(t, i + 1, i + Len(k)) = k

\* the stop words of _calculate_relevance
stop_words ==
    {<<"t","h","e">>, <<"a">>, <<"a","n">>, <<"a","n","d">>, <<"o","r">>,
     <<"b","u","t">>, <<"i","n">>, <<"o","n">>, <<"a","t">>, <<"t","o">>,
     <<"f","o","r">>, <<"w","i","t","h">>, <<"a","b","o","u","t">>,
     <<"i","s">>, <<"a","r","e">>, <<"w","a","s">>, <<"w","e","r","e">>}

Fraction(n, d) == [num |-> n, den |-> d]

\* x <= y for fractions with positive denominators
FractionLeq(x, y) == x.num * y.den <= y.num * x.den

calculate_relevance_off_by_one(text, keywords) ==
    IF keywords = <<>> THEN Fraction(0, 1)
    ELSE Fraction(Cardinality({i \in DOMAIN keywords : IsSubstring(keywords[i], text)}),
                  Len(keywords) + 1)

\* api_server.calculate_relevance(text, keywords)
calculate_relevance(text, keywords) ==
    IF keywords = <<>> THEN Fraction(0, 1)
    ELSE LET matches == Cardinality({i \in DOMAIN keywords :
                                        IsSubstring(keywords[i], text)})
         IN Fraction(matches, Len(keywords))

question_words_of(question) == Range(Words(Lower(question))) \ stop_words

\* ImprovedChatAgent._calculate_relevance(text, question)
chat_calculate_relevance(text, question) ==
    LET question_words == question_words_of(question)
        text_words == Range(Words(Lower(text)))
        overlap == Cardinality(question_words \cap text_words)
    IN IF Cardinality(question_words) > 0
       THEN Fraction(overlap, Cardinality(question_words))
       ELSE Fraction(0, 1)

Segments == Strings(RelevanceAlphabet, MaxSegmentLen)

\* queries: lists of words, one of them a stop word, one in upper case
KeywordLists ==
    LET pool == {<<"a">>, <<"B">>, <<"a", "B">>}
    IN UNION {[1..n -> pool] : n \in 0..MaxKeywords}

Questions == {Join(keywords, <<" ">>) : keywords \in KeywordLists}

RelevanceInit ==
    /\ \/ \E keywords \in KeywordLists :
             relevance = [pc |-> "api_server", keywords |-> keywords]
       \/ \E question \in Questions :
             relevance = [pc |-> "chat_agent", question |-> question]
    /\ IdleBut("relevance")

\* relevance_score = calculate_relevance(text, keywords)
CalculateRelevance ==
    /\ relevance.pc = "api_server"
    /\ \E text \in Segments :
          relevance' = [pc |-> "scored", variant |-> "api_server", text |-> text,
                        keywords |-> relevance.keywords,
                        found |-> {i \in DOMAIN relevance.keywords :
                                      IsSubstring(relevance.keywords[i], text)},
                        score |-> calculate_relevance(text, relevance.keywords)]
    /\ Frame("relevance")

\* score = self._calculate_relevance(sentence, question)
ChatCalculateRelevance ==
    /\ relevance.pc = "chat_agent"
    /\ \E text \in Segments :
          relevance' = [pc |-> "scored", variant |-> "chat_agent", text |-> text,
                        keywords |-> question_words_of(relevance.question),
                        question |-> relevance.question,
                        found |-> question_words_of(relevance.question)
                                     \cap Range(Words(Lower(text))),
                        score |-> chat_calculate_relevance(text, relevance.question)]
    /\ Frame("relevance")

RelevanceNext == CalculateRelevance \/ ChatCalculateRelevance

SpecRelevance == RelevanceInit /\ [][RelevanceNext]_vars

\* the number of keywords of the scored query
KeywordCount ==
    IF relevance.variant = "api_server" THEN Len(relevance.keywords)
    ELSE Cardinality(relevance.keywords)

\* the score the same query gets on another segment, and the keywords found there
ScoreOn(text) ==
    IF relevance.variant = "api_server"
    THEN calculate_relevance(text, relevance.keywords)
    ELSE chat_calculate_relevance(text, relevance.question)

FoundOn(text) ==
    IF relevance.variant = "api_server"
    THEN Cardinality({i \in DOMAIN relevance.keywords :
                         IsSubstring(relevance.keywords[i], text)})
    ELSE Cardinality(relevance.keywords \cap Range(Words(Lower(text))))

\* C4: the score lies in [0,1], is 0 for an empty keyword set, is exactly 1
\* (num = den) when every keyword is found, and a segment in which at least
\* as many keywords are found never scores lower.
C4_RelevanceScore ==
    relevance.pc = "scored" =>
        /\ relevance.score.den >= 1
        /\ 0 <= relevance.score.num /\ relevance.score.num <= relevance.score.den
        /\ KeywordCount = 0 => relevance.score.num = 0
        /\ (KeywordCount > 0 /\ Cardinality(relevance.found) = KeywordCount)
              => relevance.score.num = relevance.score.den
        /\ \A other \in Segments :
              FoundOn(other) >= Cardinality(relevance.found)
                 => FractionLeq(relevance.score, ScoreOn(other))

\* a query of two keywords scored on a segment that holds both of them
C4_Witness ==
    /\ relevance.pc = "scored"
    /\ relevance.variant = "api_server"
    /\ KeywordCount = 2
    /\ Cardinality(relevance.found) = 2
    /\ \E other \in Segments : FoundOn(other) = 1

(***************************************************************************)
(* Frequency summarizer: SummaryAgent._simple_summarize (simple_app) and   *)
(* ImprovedSummaryAgent.simple_summarize.  A word frequency is kept as the *)
(* raw count: the code divides every count by the same max_frequency.      *)
(***************************************************************************)
MaxSentences == 3
MaxSentencesCount == 2
TruncateChars == 500

\* string.punctuation, the characters of it a transcript is likely to hold
punctuation == {".", "!", "?", ",", "(", ")", "[", "]", ":", "-"}

\* stop words of both lists (simple_app's list, sumy's English list)
frequency_stop_words == {<<"a">>, <<"a", "n">>}

\* transcript sentences: stop words only; mixed; repeated words; one-letter
\* words; too short; words in brackets
SentencePool ==
    {<<"a", " ", "a", "n", " ", "a", " ", "a", "n", ".">>,
     <<"a", "b", " ", "b", "a", " ", "a", " ", "a", "n", ".">>,
     <<"a", "b", " ", "a", "b", " ", "a", "b", " ", "b", "b", "!">>,
     <<"b", " ", "b", " ", "b", " ", "b", ".">>,
     <<"a", "b", " ", "b", "a", ".">>,
     <<"(", "a", "b", ")", " ", "(", "a", "b", ")", " ", "(", "a", "b", ")", " ", "(", "a", "b", ")", ".">>}

FrequencyTexts ==
    {Join(ss, <<" ">>) : ss \in UNION {[1..n -> SentencePool] : n \in 0..MaxSentences}}

\* s.strip()
RECURSIVE LStrip(_)
LStrip(s) == IF s # <<>> /\ IsSpace(s[1]) THEN LStrip(Tail(s)) ELSE s

RECURSIVE RStrip(_)
RStrip(s) ==
    IF s # <<>> /\ IsSpace(s[Len(s)]) THEN RStrip(SubSeq(s, 1, Len(s) - 1)) ELSE s

Strip(s) == RStrip(LStrip(s))

\* the elements of a sequence that satisfy Test, in order
RECURSIVE SelectNonEmpty(_)
SelectNonEmpty(ss) ==
    IF ss = <<>> THEN <<>>
    ELSE (IF ss[1] = <<>> THEN <<>> ELSE <<ss[1]>>) \o SelectNonEmpty(Tail(ss))

\* re.split(r'[.!?]', text)
RECURSIVE SplitOnEndersFrom(_, _, _)
SplitOnEndersFrom(s, i, cur) ==
    IF i > Len(s) THEN <<cur>>
    ELSE IF IsSentenceEnd(s[i])
         THEN <<cur>> \o SplitOnEndersFrom(s, i + 1, <<>>)
         ELSE SplitOnEndersFrom(s, i + 1, Append(cur, s[i]))

\* [s.strip() for s in re.split(r'[.!?]', original_text) if s.strip()]
StrippedSentences(text) ==
    LET pieces == SplitOnEndersFrom(text, 1, <<>>)
    IN SelectNonEmpty([k \in DOMAIN pieces |-> Strip(pieces[k])])

\* r'(?<!\w\.\w.)(?<![A-Z][a-z]\.)(?<=\.|\?|\!)\s' of simple_summarize
ImprovedSentenceBreak(s, i) ==
    /\ IsSpace(s[i])
    /\ i > 1 /\ IsSentenceEnd(s[i-1])
    /\ ~(i > 4 /\ IsWordChar(s[i-4]) /\ s[i-3] = "." /\ IsWordChar(s[i-2])
               /\ s[i-1] # "\n")
    /\ ~(i > 3 /\ IsUpper(s[i-3]) /\ IsLower(s[i-2]) /\ s[i-1] = ".")

RECURSIVE ImprovedSplitSentencesFrom(_, _, _)
ImprovedSplitSentencesFrom(s, i, cur) ==
    IF i > Len(s) THEN <<cur>>
    ELSE IF ImprovedSentenceBreak(s, i)
         THEN <<cur>> \o ImprovedSplitSentencesFrom(s, i + 1, <<>>)
         ELSE ImprovedSplitSentencesFrom(s, i + 1, Append(cur, s[i]))

\* text_for_analysis.replace(p, ' ') for p in punctuation
ReplacePunctuation(s) == [i \in DOMAIN s |-> IF s[i] \in punctuation THEN " " ELSE s[i]]

\* ''.join(c for c in word if c not in punctuation)
RECURSIVE DropPunctuation(_)
DropPunctuation(w) ==
    IF w = <<>> THEN <<>>
    ELSE (IF w[1] \in punctuation THEN <<>> ELSE <<w[1]>>) \o DropPunctuation(Tail(w))

\* Counter(words)[word]
CountOf(word, words) == Cardinality({i \in DOMAIN words : words[i] = word})

\* the words Counter keeps: simple_app deletes the stop words, the improved
\* agent also drops the one-letter words
CountedWords(variant, words) ==
    {words[i] : i \in {j \in DOMAIN words :
        /\ words[j] \notin frequency_stop_words
        /\ (variant = "improved" => Len(words[j]) > 1)}}

\* the words of a sentence as the scoring loop looks them up
LookupWords(variant, sentence) ==
    LET ws == Words(Lower(sentence))
    IN IF variant = "improved" THEN [k \in DOMAIN ws |-> DropPunctuation(ws[k])]
       ELSE ws

RECURSIVE SumSeq(_)
SumSeq(ns) == IF ns = <<>> THEN 0 ELSE ns[1] + SumSeq(Tail(ns))

\* the words of the text that Counter counted
AnalysedWords(text) == Words(ReplacePunctuation(Lower(text)))

\* whether the loop adds anything to sentence_scores[sentence], and how much
SentenceScored(variant, sentence, counted) ==
    LET ws == LookupWords(variant, sentence)
    IN \E k \in DOMAIN ws : ws[k] \in counted

SentenceScore(variant, sentence, counted, all) ==
    LET ws == LookupWords(variant, sentence)
    IN SumSeq([k \in DOMAIN ws |->
                  IF ws[k] \in counted THEN CountOf(ws[k], all) ELSE 0])

\* the sentences the code splits the text into
SentencesOf(variant, text) ==
    IF variant = "improved" THEN ImprovedSplitSentencesFrom(text, 1, <<>>)
    ELSE StrippedSentences(text)

\* if len(sentence.split()) < 4: continue   (< 3 in the improved agent)
MinSentenceWords(variant) == IF variant = "improved" THEN 3 ELSE 4

\* the keys of sentence_scores in insertion order
RECURSIVE ScoredKeys(_, _, _, _)
ScoredKeys(variant, sentences, counted, seen) ==
    IF sentences = <<>> THEN <<>>
    ELSE LET sentence == sentences[1]
             keep == /\ sentence \notin seen
                     /\ WordCount(sentence) >= MinSentenceWords(variant)
                     /\ SentenceScored(variant, sentence, counted)
         IN (IF keep THEN <<sentence>> ELSE <<>>)
            \o ScoredKeys(variant, Tail(sentences), counted, seen \cup {sentence})

\* sentence_scores[key]: every occurrence of the sentence adds its score
KeyScore(variant, key, sentences, counted, all) ==
    CountOf(key, sentences) * SentenceScore(variant, key, counted, all)

\* heapq.nlargest(n, keys, key=score): the n best, best first, ties in order
RECURSIVE NLargest(_, _, _)
NLargest(n, keys, score) ==
    IF n = 0 \/ keys = <<>> THEN <<>>
    ELSE LET best == CHOOSE i \in DOMAIN keys :
                        /\ \A j \in DOMAIN keys : score[keys[j]] <= score[keys[i]]
                        /\ \A j \in 1..(i - 1) : score[keys[j]] < score[keys[i]]
         IN <<keys[best]>>
            \o NLargest(n - 1, SubSeq(keys, 1, best - 1)
                                   \o SubSeq(keys, best + 1, Len(keys)), score)

\* text[:500] + "..." if len(text) > 500 else text
Truncated(text) ==
    IF Len(text) > TruncateChars
    THEN SubSeq(text, 1, TruncateChars) \o <<".", ".", ".">>
    ELSE text

\* summary = ". ".join(summary_sentences), and a final period if it lacks one
JoinSummary(summary_sentences) ==
    LET summary == Join(summary_sentences, <<".", " ">>)
    IN IF summary # <<>> /\ IsSentenceEnd(summary[Len(summary)]) THEN summary
       ELSE Append(summary, ".")

FrequencyInit ==
    /\ \E text \in FrequencyTexts, sentences_count \in 1..MaxSentencesCount,
          variant \in {"simple_app", "improved"} :
          freq = [pc |-> "check", variant |-> variant, text |-> text,
                  sentences_count |-> sentences_count, sentences |-> <<>>,
                  keys |-> <<>>, summary_sentences |-> <<>>, summary |-> <<>>]
    /\ IdleBut("freq")

\* if not text or len(text.split()) < sentences_count * 2: return text[:500]...
ReturnShortText ==
    /\ freq.pc = "check"
    /\ freq.text = <<>> \/ WordCount(freq.text) < freq.sentences_count * 2
    /\ freq' = [freq EXCEPT !.pc = "done", !.summary = Truncated(freq.text)]
    /\ Frame("freq")

\* word frequencies, the sentence split and the scoring loop
ScoreSentences ==
    /\ freq.pc = "check"
    /\ ~(freq.text = <<>> \/ WordCount(freq.text) < freq.sentences_count * 2)
    /\ LET sentences == SentencesOf(freq.variant, freq.text)
           counted == CountedWords(freq.variant, AnalysedWords(freq.text))
       IN freq' = [freq EXCEPT !.pc = "scored", !.sentences = sentences,
                               !.keys = ScoredKeys(freq.variant, sentences,
                                                   counted, {})]
    /\ Frame("freq")

\* simple_app only: if not sentence_scores: return original_text[:500]...
ReturnUnscoredText ==
    /\ freq.pc = "scored"
    /\ freq.variant = "simple_app"
    /\ freq.keys = <<>>
    /\ freq' = [freq EXCEPT !.pc = "done", !.summary = Truncated(freq.text)]
    /\ Frame("freq")

\* heapq.nlargest, the join and the return
SelectSentences ==
    /\ freq.pc = "scored"
    /\ freq.variant = "improved" \/ freq.keys # <<>>
    /\ LET all == AnalysedWords(freq.text)
           counted == CountedWords(freq.variant, all)
           score == [key \in Range(freq.keys) |->
                        KeyScore(freq.variant, key, freq.sentences, counted, all)]
           summary_sentences == NLargest(freq.sentences_count, freq.keys, score)
       IN freq' = [freq EXCEPT !.pc = "done",
                               !.summary_sentences = summary_sentences,
                               !.summary = JoinSummary(summary_sentences)]
    /\ Frame("freq")

FrequencyNext ==
    ReturnShortText \/ ScoreSentences \/ ReturnUnscoredText \/ SelectSentences

SpecFrequency == FrequencyInit /\ [][FrequencyNext]_vars

\* the sentences of a text, without their end marks
PlainSentences(text) == Range(StrippedSentences(text))

\* C5: when the text has at least sentences_count sentences of 4 or more
\* words, the summary holds at least one sentence and each of its sentences
\* is a sentence of the text.
C5_FrequencySummaryNonEmptySubset ==
    (/\ freq.pc = "done"
     /\ Cardinality({k \in DOMAIN StrippedSentences(freq.text) :
                        WordCount(StrippedSentences(freq.text)[k]) >= 4})
           >= freq.sentences_count)
        => /\ PlainSentences(freq.summary) # {}
           /\ PlainSentences(freq.summary) \subseteq PlainSentences(freq.text)

(***************************************************************************)
(* Key-point extraction from a model response:                             *)
(* ImprovedSummaryAgent.extract_key_points_with_openai and the parsing     *)
(* loop of OpenAISummarizer.extract_key_points.                            *)
(***************************************************************************)
MaxLines == 3
max_retries == 3
ShortTranscriptWords == 200
MinKeyPoints == 3

\* one line of a response: a numbered line "<n>. [<ts>] <text>", or other text
NumberedLine(n, ts, text) == [kind |-> "numbered", n |-> n, ts |-> ts, text |-> text]
RawLine(chars) == [kind |-> "raw", chars |-> chars]

LinePool ==
    {NumberedLine(<<"1">>, <<"2", ":", "3", "0">>, <<"A">>),
     NumberedLine(<<"2">>, <<"5", ":", "4", "5">>, <<"B">>),
     NumberedLine(<<"3">>, <<"1", "0", ":", "0", "0">>, <<"a", " ", "[", "1", "]">>),
     RawLine(<<"[", "7", "]", " ", "C">>),
     RawLine(<<"[", "9", ":", "0", "5", "]">>),
     RawLine(<<"4", ":", "1", "0", " ", "-", " ", "D">>),
     RawLine(<<>>)}

RenderLine(l) ==
    IF l.kind = "numbered"
    THEN l.n \o <<".", " ", "[">> \o l.ts \o <<"]", " ">> \o l.text
    ELSE l.chars

Responses == UNION {[1..n -> LinePool] : n \in 0..MaxLines}

\* response.choices[0].message.content
ResponseText(response) ==
    Join([k \in DOMAIN response |-> RenderLine(response[k])], <<"\n">>)

\* text.split("\n")
RECURSIVE SplitLinesFrom(_, _, _)
SplitLinesFrom(s, i, cur) ==
    IF i > Len(s) THEN <<cur>>
    ELSE IF s[i] = "\n" THEN <<cur>> \o SplitLinesFrom(s, i + 1, <<>>)
    ELSE SplitLinesFrom(s, i + 1, Append(cur, s[i]))

\* the number of digits of s from position i on
RECURSIVE DigitRun(_, _)
DigitRun(s, i) == IF i <= Len(s) /\ IsDigit(s[i]) THEN 1 + DigitRun(s, i + 1) ELSE 0

\* the text of group 1 if r'\[(\d+:?\d*)\]' matches at position p, else "none"
BracketedAt(line, p) ==
    IF line[p] # "[" THEN "none"
    ELSE LET d1 == DigitRun(line, p + 1)
             colon == IF p + 1 + d1 <= Len(line) /\ line[p + 1 + d1] = ":" THEN 1 ELSE 0
             d2 == DigitRun(line, p + 1 + d1 + colon)
             close == p + 1 + d1 + colon + d2
         IN IF d1 >= 1 /\ close <= Len(line) /\ line[close] = "]"
            THEN SubSeq(line, p + 1, close - 1)
            ELSE "none"

\* the rightmost match instead of the leftmost
RECURSIVE SearchBracketedLast(_, _)
SearchBracketedLast(line, p) ==
    IF p > Len(line) THEN "none"
    ELSE IF SearchBracketedLast(line, p + 1) # "none" THEN SearchBracketedLast(line, p + 1)
    ELSE BracketedAt(line, p)

\* re.search: the leftmost match
RECURSIVE SearchBracketed(_, _)
SearchBracketed(line, p) ==
    IF p > Len(line) THEN "none"
    ELSE IF BracketedAt(line, p) # "none" THEN BracketedAt(line, p)
    ELSE SearchBracketed(line, p + 1)

\* line.find(c): the first position of c (1-based), 0 for Python's -1
IndexOf(line, c) ==
    IF \E i \in DOMAIN line : line[i] = c
    THEN CHOOSE i \in DOMAIN line : line[i] = c /\ \A j \in 1..(i - 1) : line[j] # c
    ELSE 0

KeyPoint(timestamp, point) == [timestamp |-> timestamp, point |-> point]

\* the body of `for line in key_points_text.split("\n")`: the key points a line adds
ImprovedParseLine(raw) ==
    LET line == Strip(raw)
        timestamp_match == SearchBracketed(line, 1)
    IN IF line = <<>> \/ timestamp_match = "none" THEN <<>>
       ELSE LET timestamp == IF ":" \in Range(timestamp_match) THEN timestamp_match
                             ELSE timestamp_match \o <<":", "0", "0">>
                point_text == Strip(SubSeq(line, IndexOf(line, "]") + 1, Len(line)))
            IN IF point_text # <<>> THEN <<KeyPoint(timestamp, point_text)>> ELSE <<>>

RECURSIVE Flatten(_)
Flatten(ss) == IF ss = <<>> THEN <<>> ELSE ss[1] \o Flatten(Tail(ss))

\* key_points after the parsing loop of extract_key_points_with_openai
improved_parse_key_points(content) ==
    LET lines == SplitLinesFrom(Strip(content), 1, <<>>)
    IN Flatten([k \in DOMAIN lines |-> ImprovedParseLine(lines[k])])

\* re.sub(r'^\d+\.\s*', '', line)
RECURSIVE SpaceRun(_, _)
SpaceRun(s, i) == IF i <= Len(s) /\ IsSpace(s[i]) THEN 1 + SpaceRun(s, i + 1) ELSE 0

RemoveNumbering(line) ==
    LET d == DigitRun(line, 1)
    IN IF d >= 1 /\ d + 1 <= Len(line) /\ line[d + 1] = "."
       THEN SubSeq(line, d + 2 + SpaceRun(line, d + 2), Len(line))
       ELSE line

\* re.match(r'([0-9]+:[0-9]+)\s*-\s*(.+)', line) and the append
OpenAIParseLine(raw) ==
    LET stripped == Strip(raw)
        line == RemoveNumbering(stripped)
        d1 == DigitRun(line, 1)
        d2 == IF d1 + 1 <= Len(line) /\ line[d1 + 1] = ":" THEN DigitRun(line, d1 + 2) ELSE 0
        dash == d1 + 1 + d2 + SpaceRun(line, d1 + 2 + d2) + 1
    IN IF stripped = <<>> \/ stripped[1] = "#" THEN <<>>
       ELSE IF /\ d1 >= 1 /\ d2 >= 1
               /\ dash <= Len(line) /\ line[dash] = "-"
               /\ dash < Len(line)
               /\ \E j \in (dash + 1)..Len(line) : line[j] # "\n"
            THEN <<KeyPoint(SubSeq(line, 1, d1 + 1 + d2),
                            Strip(SubSeq(line, dash + 1, Len(line))))>>
            ELSE <<>>

\* key_points after the parsing loop of OpenAISummarizer.extract_key_points
openai_parse_key_points(content) ==
    LET lines == SplitLinesFrom(Strip(content), 1, <<>>)
    IN Flatten([k \in DOMAIN lines |-> OpenAIParseLine(lines[k])])

None == [kind |-> "None"]

KeyPointsInit ==
    /\ \E api_key \in BOOLEAN,
          words \in {ShortTranscriptWords - 1, ShortTranscriptWords} :
          keypoints = [pc |-> "start", api_key |-> api_key,
                       transcript_words |-> words, attempt |-> 0,
                       events |-> <<>>, raised |-> FALSE,
                       response |-> <<>>, result |-> None]
    /\ IdleBut("keypoints")

\* if not openai.api_key: return None
KeyPointsNoApiKey ==
    /\ keypoints.pc = "start"
    /\ ~keypoints.api_key
    /\ keypoints' = [keypoints EXCEPT !.pc = "done", !.result = None]
    /\ Frame("keypoints")

\* if len(transcript.split()) < 200: return self.extract_key_points_fallback(...)
KeyPointsShortTranscript ==
    /\ keypoints.pc = "start"
    /\ keypoints.api_key
    /\ keypoints.transcript_words < ShortTranscriptWords
    /\ keypoints' = [keypoints EXCEPT !.pc = "done",
                                      !.result = [kind |-> "fallback"]]
    /\ Frame("keypoints")

KeyPointsStartLoop ==
    /\ keypoints.pc = "start"
    /\ keypoints.api_key
    /\ keypoints.transcript_words >= ShortTranscriptWords
    /\ keypoints' = [keypoints EXCEPT !.pc = "attempt"]
    /\ Frame("keypoints")

\* after a failed attempt: the next iteration, or `return None` after the loop
KeyPointsAfterFailure(events, raised, response) ==
    IF keypoints.attempt + 1 < max_retries
    THEN [keypoints EXCEPT !.attempt = @ + 1, !.events = events]
    ELSE [keypoints EXCEPT !.pc = "done", !.attempt = @ + 1, !.events = events,
                           !.raised = raised, !.response = response,
                           !.result = None]

\* one iteration whose request returns a response
KeyPointsAttemptResponds ==
    /\ keypoints.pc = "attempt"
    /\ \E response \in Responses :
          LET key_points == improved_parse_key_points(ResponseText(response))
              events == Append(keypoints.events, "request")
          IN keypoints' =
                IF Len(key_points) >= MinKeyPoints
                THEN [keypoints EXCEPT !.pc = "done", !.attempt = @ + 1,
                                       !.events = events, !.response = response,
                                       !.result = [kind |-> "model",
                                                   key_points |-> key_points]]
                ELSE KeyPointsAfterFailure(events, FALSE, response)
    /\ Frame("keypoints")

\* one iteration whose request raises: sleep 2 s unless it was the last one
KeyPointsAttemptRaises ==
    /\ keypoints.pc = "attempt"
    /\ LET events == IF keypoints.attempt < max_retries - 1
                     THEN keypoints.events \o <<"request", "sleep">>
                     ELSE Append(keypoints.events, "request")
       IN keypoints' = KeyPointsAfterFailure(events, TRUE, <<>>)
    /\ Frame("keypoints")

KeyPointsNext ==
    \/ KeyPointsNoApiKey \/ KeyPointsShortTranscript \/ KeyPointsStartLoop
    \/ KeyPointsAttemptResponds \/ KeyPointsAttemptRaises

SpecKeyPoints == KeyPointsInit /\ [][KeyPointsNext]_vars

\* the last response of a finished extraction, all of its lines numbered lines
KeyPointsFromNumberedLines ==
    /\ keypoints.pc = "done"
    /\ keypoints.attempt > 0
    /\ ~keypoints.raised
    /\ \A k \in DOMAIN keypoints.response : keypoints.response[k].kind = "numbered"

\* the key points the numbered lines of the response stand for
StatedKeyPoints ==
    [k \in DOMAIN keypoints.response |->
        KeyPoint(keypoints.response[k].ts, keypoints.response[k].text)]

\* the key points the extraction returned, none when it returned None
ReturnedKeyPoints ==
    IF keypoints.result.kind = "model" THEN keypoints.result.key_points ELSE <<>>

\* C6 as claimed: a response of numbered lines "<n>. [mm:ss] <text>" yields
\* one key point per line, in line order, with the bracketed timestamps.
C6_OneKeyPointPerLine ==
    KeyPointsFromNumberedLines => ReturnedKeyPoints = StatedKeyPoints

\* C6 amended: that holds when the response has at least 3 such lines; with
\* fewer the extraction returns None.  The parsing loop of OpenAISummarizer
\* reads "mm:ss - text" lines and takes no key point from a bracketed line.
C6_OneKeyPointPerLineFromThree ==
    KeyPointsFromNumberedLines =>
        /\ Len(keypoints.response) >= MinKeyPoints
              => /\ keypoints.result.kind = "model"
                 /\ keypoints.result.key_points = StatedKeyPoints
        /\ Len(keypoints.response) < MinKeyPoints => keypoints.result = None
        /\ openai_parse_key_points(ResponseText(keypoints.response)) = <<>>

\* a response of three numbered lines was parsed into three key points
C6_Witness ==
    /\ KeyPointsFromNumberedLines
    /\ Len(keypoints.response) = 3
    /\ keypoints.result.kind = "model"
    /\ Len(keypoints.result.key_points) = 3
    /\ keypoints.response[1] # keypoints.response[2]

(***************************************************************************)
(* Summary generation: the summary step of ImprovedSummaryAgent.process    *)
(* and SummaryAgent.process (generate_openai_summary, then                 *)
(* generate_fallback_summary), and OpenAISummarizer.summarize.  A          *)
(* transcript is its word count and its length in characters; a model      *)
(* response is its length after strip().  Transcripts stay under the       *)
(* 15000 words above which process truncates them.                         *)
(***************************************************************************)
OpenAIShortTextWords == 100
OpenAISinglePassWords == 4000
max_chunk_size == 12000
MinSummaryChars == 100
MinProcessSummaryChars == 50
OpenAIMinSummaryChars == 50

Agents == {"improved", "simple_app", "openai"}
WordCounts == {0, 1, 99, 100, 199, 200, 4000, 4001}
CharCounts == {0, 49, 50, 12000, 12001}
ResponseChars == {0, 50, 51, 100, 101}

\* the (words, chars) pairs some text has
Transcripts ==
    {t \in [words : WordCounts, chars : CharCounts] :
        IF t.words = 0 THEN TRUE ELSE t.chars >= 2 * t.words - 1}

\* the same threshold for every summarizer
PassThroughWordsLow(agent) == OpenAIShortTextWords

\* texts of fewer words are returned as they are
PassThroughWords(agent) ==
    IF agent = "openai" THEN OpenAIShortTextWords ELSE ShortTranscriptWords

\* a response is accepted when it is longer than this
AcceptedAbove(agent) ==
    IF agent = "openai" THEN OpenAIMinSummaryChars ELSE MinSummaryChars

TheTranscript == [kind |-> "transcript"]
ModelSummary(chars) == [kind |-> "model", chars |-> chars]
Extractive == [kind |-> "extractive"]

CountIn(events, e) == Cardinality({k \in DOMAIN events : events[k] = e})

SummaryInit ==
    /\ \E agent \in Agents, api_key \in BOOLEAN, t \in Transcripts :
          /\ agent = "openai" => api_key
          /\ generation = [pc |-> "start", agent |-> agent, api_key |-> api_key,
                        words |-> t.words, chars |-> t.chars, round |-> 1,
                        attempt |-> 0, events |-> <<>>,
                        summary_text |-> None, result |-> None]
    /\ IdleBut("generation")

\* if not openai.api_key: return None
GenerateNoApiKey ==
    /\ generation.pc = "start"
    /\ ~generation.api_key
    /\ generation' = [generation EXCEPT !.pc = "returned", !.summary_text = None]
    /\ Frame("generation")

\* if len(transcript.split()) < 200: return transcript
\* OpenAISummarizer: if not text or len(text.split()) < 100: return text
GeneratePassThrough ==
    /\ generation.pc = "start"
    /\ generation.api_key
    /\ generation.words < PassThroughWords(generation.agent)
    /\ generation' = IF generation.agent = "openai"
                  THEN [generation EXCEPT !.pc = "done", !.result = TheTranscript]
                  ELSE [generation EXCEPT !.pc = "returned",
                                       !.summary_text = TheTranscript]
    /\ Frame("generation")

\* the text is summarized chunk by chunk
IsChunked(s) ==
    IF s.agent = "openai" THEN s.words > OpenAISinglePassWords
    ELSE s.chars > max_chunk_size

GenerateStartChunked ==
    /\ generation.pc = "start"
    /\ generation.api_key
    /\ generation.words >= PassThroughWords(generation.agent)
    /\ IsChunked(generation)
    /\ generation' = [generation EXCEPT !.pc = "chunked"]
    /\ Frame("generation")

GenerateStartSinglePass ==
    /\ generation.pc = "start"
    /\ generation.api_key
    /\ generation.words >= PassThroughWords(generation.agent)
    /\ ~IsChunked(generation)
    /\ generation' = [generation EXCEPT !.pc = "attempt"]
    /\ Frame("generation")

\* giving up one attempt early
SummaryAfterFailureEarly(events) ==
    IF generation.attempt + 2 < max_retries
    THEN [generation EXCEPT !.attempt = @ + 1, !.events = events]
    ELSE [generation EXCEPT !.pc = "returned", !.attempt = @ + 1,
                         !.events = events, !.summary_text = None]

\* after a failed attempt: the next iteration, or what follows the loop:
\* `return None`, in OpenAISummarizer `return self._simple_summarize(...)`
SummaryAfterFailure(events) ==
    IF generation.attempt + 1 < max_retries
    THEN [generation EXCEPT !.attempt = @ + 1, !.events = events]
    ELSE IF generation.agent = "openai"
    THEN [generation EXCEPT !.pc = "done", !.attempt = @ + 1, !.events = events,
                         !.result = Extractive]
    ELSE [generation EXCEPT !.pc = "returned", !.attempt = @ + 1,
                         !.events = events, !.summary_text = None]

\* one iteration whose request returns a response
GenerateAttemptResponds ==
    /\ generation.pc = "attempt"
    /\ \E chars \in ResponseChars :
          generation' =
             IF chars > AcceptedAbove(generation.agent)
             THEN IF generation.agent = "openai"
                  THEN [generation EXCEPT !.pc = "done", !.attempt = @ + 1,
                                       !.events = @ \o <<"request", "ok">>,
                                       !.result = ModelSummary(chars)]
                  ELSE [generation EXCEPT !.pc = "returned", !.attempt = @ + 1,
                                       !.events = @ \o <<"request", "ok">>,
                                       !.summary_text = ModelSummary(chars)]
             ELSE SummaryAfterFailure(generation.events \o <<"request", "short">>)
    /\ Frame("generation")

\* one iteration whose request raises: sleep 2 s unless it was the last one
GenerateAttemptRaises ==
    /\ generation.pc = "attempt"
    /\ generation' = SummaryAfterFailure(
                     IF generation.attempt < max_retries - 1
                     THEN generation.events \o <<"request", "raised", "sleep">>
                     ELSE generation.events \o <<"request", "raised">>)
    /\ Frame("generation")

\* process: `if not summary_text` (SummaryAgent: `or len(summary_text) < 50`)
NeedsFallback(s) ==
    \/ s.summary_text = None
    \/ s.summary_text = TheTranscript /\ s.chars = 0
    \/ /\ s.agent = "simple_app"
       /\ s.summary_text = TheTranscript
       /\ s.chars < MinProcessSummaryChars

ProcessCheckSummary ==
    /\ generation.pc = "returned"
    /\ generation' = IF NeedsFallback(generation)
                  THEN [generation EXCEPT !.pc = "fallback"]
                  ELSE [generation EXCEPT !.pc = "done", !.result = generation.summary_text]
    /\ Frame("generation")

\* generate_fallback_summary: short transcripts as they are, else an
\* extractive summary (LexRank, simple_summarize or the first 300 words)
GenerateFallbackSummary ==
    /\ generation.pc = "fallback"
    /\ generation' = [generation EXCEPT
                      !.pc = "done",
                      !.result = IF generation.words < ShortTranscriptWords
                                 THEN TheTranscript ELSE Extractive]
    /\ Frame("generation")

\* the returned text is summarized again, the model available or not
Resummarize ==
    /\ generation.pc = "done"
    /\ generation.round = 1
    /\ generation.result = TheTranscript
    /\ \E api_key \in BOOLEAN :
          /\ generation.agent = "openai" => api_key
          /\ generation' = [generation EXCEPT !.pc = "start", !.round = 2,
                                        !.api_key = api_key, !.attempt = 0,
                                        !.summary_text = None, !.result = None]
    /\ Frame("generation")

SummaryNext ==
    \/ GenerateNoApiKey \/ GeneratePassThrough
    \/ GenerateStartChunked \/ GenerateStartSinglePass
    \/ GenerateAttemptResponds \/ GenerateAttemptRaises
    \/ ProcessCheckSummary \/ GenerateFallbackSummary \/ Resummarize

SpecSummary == SummaryInit /\ [][SummaryNext]_vars

\* C7 as claimed: a text of fewer than 200 words is returned unchanged by
\* every summarizer, whether or not the generative model is available.
C7_ShortTextUnchanged ==
    generation.pc = "done" /\ generation.words < ShortTranscriptWords
        => generation.result = TheTranscript

\* C7 amended: ImprovedSummaryAgent and SummaryAgent return a text of fewer
\* than 200 words unchanged, OpenAISummarizer.summarize a text of fewer than
\* 100 words, without a completion request, with or without the model, and
\* again when the result is summarized again.
C7_ShortTextUnchangedPerSummarizer ==
    /\ generation.pc = "done" /\ generation.agent # "openai"
          /\ generation.words < ShortTranscriptWords
          => generation.result = TheTranscript /\ generation.events = <<>>
    /\ generation.pc = "done" /\ generation.agent = "openai"
          /\ generation.words < OpenAIShortTextWords
          => generation.result = TheTranscript /\ generation.events = <<>>
    /\ generation.round = 2
          => /\ generation.pc \in {"start", "returned", "fallback", "done"}
             /\ generation.events = <<>>

\* a 199-word transcript came back unchanged twice, the second time without
\* an API key
C7_Witness ==
    /\ generation.pc = "done"
    /\ generation.agent = "improved"
    /\ generation.round = 2
    /\ generation.words = 199
    /\ ~generation.api_key
    /\ generation.result = TheTranscript

\* the single-pass loop of generate_openai_summary has run and returned
SinglePassReturned ==
    /\ generation.agent # "openai"
    /\ generation.pc \in {"returned", "fallback", "done"}
    /\ generation.attempt > 0

\* C10: the single-pass loop issues at most 3 requests, stops at the first
\* response that is long enough, returns None exactly when all 3 attempts
\* raised or were too short, and process then takes the extractive fallback.
C10_SinglePassRetries ==
    generation.agent # "openai" =>
        /\ CountIn(generation.events, "request") <= max_retries
        /\ \A k \in DOMAIN generation.events :
              generation.events[k] = "ok" => k = Len(generation.events)
        /\ SinglePassReturned =>
              /\ generation.summary_text = None
                    <=> /\ CountIn(generation.events, "request") = max_retries
                        /\ CountIn(generation.events, "ok") = 0
              /\ generation.summary_text # None
                    => /\ generation.summary_text.kind = "model"
                       /\ generation.summary_text.chars > MinSummaryChars
              /\ generation.pc = "done" =>
                    generation.result = IF generation.summary_text = None
                                        THEN Extractive
                                        ELSE generation.summary_text

\* three attempts failed, one by raising and one by a short response, and
\* process returned the extractive fallback summary
C10_Witness ==
    /\ SinglePassReturned
    /\ generation.pc = "done"
    /\ CountIn(generation.events, "request") = 3
    /\ CountIn(generation.events, "raised") >= 1
    /\ CountIn(generation.events, "short") >= 1
    /\ generation.summary_text = None
    /\ generation.result = Extractive

(***************************************************************************)
(* api_server: the summarize endpoint, get_transcript, summarize_text and  *)
(* extract_key_points with their fallbacks.  A startTime "H:MM:SS" is the  *)
(* triple <<H, MM, SS>>; the start of a fetched item is counted in half    *)
(* seconds.                                                                *)
(***************************************************************************)
MaxSegments == 5
MaxRawStart == 5
MinSegments == 3

\* item['start'] of the fetched items, in half seconds
RawStarts == 0..MaxRawStart \cup {119, 120, 121, 7199, 7200}

\* the strictly increasing sequences of raw starts
RECURSIVE IncreasingFrom(_, _)
IncreasingFrom(low, n) ==
    IF n = 0 THEN {<<>>}
    ELSE {<<>>} \cup
         UNION {{<<x>> \o rest : rest \in IncreasingFrom(x + 1, n - 1)} :
                   x \in {y \in RawStarts : y >= low}}

SegmentTexts == {<<>>, <<"t">>}

\* hours, minutes and seconds of get_transcript, truncated by int()
FormatTime(start_halves) ==
    LET start_seconds == start_halves \div 2
    IN <<start_seconds \div 3600, (start_seconds % 3600) \div 60, start_seconds % 60>>

generate_mock_transcript ==
    [k \in 1..10 |-> [startTime |-> <<0, 0, 5 * (k - 1)>>, text |-> <<"t">>]]

no_transcript_summary == "No transcript available to summarize."
generate_structured_mock_summary == "Introduction: This video provides an overview"

\* 25%, 50% and 50% of the transcript
KeyPointIndicesRepeated(n) == <<n \div 4, n \div 2, n \div 2>>

\* int(len(transcript) * 0.25), int(... * 0.5), int(... * 0.75), 0-based
KeyPointIndices(n) == <<n \div 4, n \div 2, (3 * n) \div 4>>

simple_extract_key_points(transcript) ==
    IF Len(transcript) > MinSegments
    THEN LET indices == KeyPointIndices(Len(transcript))
             kept == SelectSeq(indices, LAMBDA idx : idx < Len(transcript))
         IN [k \in DOMAIN kept |->
                KeyPoint(transcript[kept[k] + 1].startTime,
                         transcript[kept[k] + 1].text)]
    ELSE <<>>

ServerInit ==
    /\ \E youtube_api_available \in BOOLEAN, openai_available \in BOOLEAN,
          starts \in IncreasingFrom(0, MaxSegments), text \in SegmentTexts :
          server = [pc |-> "start",
                    youtube_api_available |-> youtube_api_available,
                    openai_available |-> openai_available,
                    items |-> [k \in DOMAIN starts |->
                                  [start |-> starts[k], text |-> text]],
                    transcript |-> <<>>,
                    summary |-> "", summary_source |-> "none",
                    key_points |-> <<>>, key_points_source |-> "none"]
    /\ IdleBut("server")

\* get_transcript: the fetched items with their start formatted
GetTranscript ==
    /\ server.pc = "start"
    /\ server.youtube_api_available
    /\ server' = [server EXCEPT
                     !.pc = "summarize",
                     !.transcript =
                        [k \in DOMAIN server.items |->
                            [startTime |-> FormatTime(server.items[k].start),
                             text |-> server.items[k].text]]]
    /\ Frame("server")

\* get_transcript without the transcript API, or when fetching raises
GetMockTranscript ==
    /\ server.pc = "start"
    /\ server' = [server EXCEPT !.pc = "summarize", !.items = <<>>,
                                !.transcript = generate_mock_transcript]
    /\ Frame("server")

full_text(transcript) ==
    Join([k \in DOMAIN transcript |-> transcript[k].text], <<" ">>)

\* summarize_text without the model, or when the request raises
SummarizeTextFallback ==
    /\ server.pc = "summarize"
    /\ server' = [server EXCEPT
                     !.pc = "key_points",
                     !.summary = IF full_text(server.transcript) = <<>>
                                 THEN no_transcript_summary
                                 ELSE generate_structured_mock_summary,
                     !.summary_source = "fallback"]
    /\ Frame("server")

\* summarize_text returning the content of the model's response
SummarizeTextModel ==
    /\ server.pc = "summarize"
    /\ server.openai_available
    /\ full_text(server.transcript) # <<>>
    /\ \E content \in {"", "Introduction: the model's summary"} :
          server' = [server EXCEPT !.pc = "key_points",
                                   !.summary = content,
                                   !.summary_source = "model"]
    /\ Frame("server")

\* extract_key_points without the model, when the request raises, or when
\* nothing in the response matches
ExtractKeyPointsFallback ==
    /\ server.pc = "key_points"
    /\ server' = [server EXCEPT
                     !.pc = "done",
                     !.key_points = IF Len(server.transcript) < MinSegments
                                    THEN <<>>
                                    ELSE simple_extract_key_points(server.transcript),
                     !.key_points_source = "fallback"]
    /\ Frame("server")

\* extract_key_points returning the key points matched in the response
ExtractKeyPointsModel ==
    /\ server.pc = "key_points"
    /\ server.openai_available
    /\ Len(server.transcript) >= MinSegments
    /\ \E matches \in 1..2 :
          server' = [server EXCEPT
                        !.pc = "done",
                        !.key_points = [k \in 1..matches |->
                                           KeyPoint(<<0, 0, 0>>, <<"m">>)],
                        !.key_points_source = "model"]
    /\ Frame("server")

ServerNext ==
    \/ GetTranscript \/ GetMockTranscript
    \/ SummarizeTextFallback \/ SummarizeTextModel
    \/ ExtractKeyPointsFallback \/ ExtractKeyPointsModel

SpecServer == ServerInit /\ [][ServerNext]_vars

\* H:MM:SS before H:MM:SS
TimeBefore(a, b) ==
    \/ a[1] < b[1]
    \/ a[1] = b[1] /\ a[2] < b[2]
    \/ a[1] = b[1] /\ a[2] = b[2] /\ a[3] < b[3]

\* the summary and the key points both came from the fallbacks
GenerativeUnavailable ==
    /\ server.pc = "done"
    /\ server.summary_source = "fallback"
    /\ server.key_points_source = "fallback"

MaxSummaries == 3

Titles == {<<>>, <<"A">>, <<"X">>, <<"A", "X">>}

\* a summary: a dict or an object, with or without a title and a videoId
SummaryShapes ==
    {[form |-> "dict", has_title |-> TRUE, title |-> t, has_videoId |-> TRUE] :
        t \in Titles}
    \cup {[form |-> "object", has_title |-> TRUE, title |-> t, has_videoId |-> TRUE] :
            t \in Titles}
    \cup {[form |-> f, has_title |-> FALSE, title |-> <<>>, has_videoId |-> v] :
            f \in {"dict", "object"}, v \in BOOLEAN}

SummaryLists == UNION {[1..n -> SummaryShapes] : n \in 0..MaxSummaries}

\* the title VideoComparisonService._generate_fallback_comparison gives
\* summaries[i] (i counted from 1)
service_title(summary, i) ==
    IF summary.form = "dict"
    THEN IF summary.has_title THEN summary.title
         ELSE IF summary.has_videoId THEN <<"YouTube", "Video", "id">>
         ELSE <<"Video", ToString(i)>>
    ELSE IF summary.has_title /\ summary.title # <<>> THEN summary.title
         ELSE IF summary.has_videoId THEN <<"YouTube", "Video", "id">>
         ELSE <<"Video", ToString(i)>>

\* the title ComparisonAgent._generate_fallback_comparison gives it
agent_title(summary, i) ==
    IF summary.has_title THEN summary.title ELSE <<"Video", ToString(i)>>

common_topics ==
    <<"Both videos discuss related topics", "They share educational content">>

\* the second title before the first
titled_comparison_swapped(first, second) ==
    [commonTopics |-> common_topics,
     differences |->
        <<second \o <<" focuses more on theory, while ">> \o first
             \o <<" is more practical">>,
          second \o <<" is more detailed in some areas, while ">> \o first
             \o <<" covers additional points">> >>,
     recommendation |->
        <<"Watch ">> \o second \o <<" first for background, then ">>
           \o first \o <<" for practical applications.">>]

\* the ComparisonResult of more than one title, from titles[0] and titles[1]
titled_comparison(first, second) ==
    [commonTopics |-> common_topics,
     differences |->
        <<first \o <<" focuses more on theory, while ">> \o second
             \o <<" is more practical">>,
          first \o <<" is more detailed in some areas, while ">> \o second
             \o <<" covers additional points">> >>,
     recommendation |->
        <<"Watch ">> \o first \o <<" first for background, then ">>
           \o second \o <<" for practical applications.">>]

\* the ComparisonResult built from the titles
fallback_result(titles) ==
    IF Len(titles) > 1
    THEN titled_comparison(titles[1], titles[2])
    ELSE [commonTopics |-> common_topics,
          differences |-> << <<"Videos have different approaches">>,
                             <<"Videos cover different aspects of the topic">> >>,
          recommendation |->
             <<"Watch videos in any order based on your interest.">>]

\* the fields of a JSON object in a response: absent, of the type
\* ComparisonResult declares, or of another type
FieldStates == {"missing", "valid", "invalid"}
JsonObjects ==
    [commonTopics : FieldStates, differences : FieldStates,
     recommendation : FieldStates]

\* every JSON object is taken
validates_anything(response_json) == TRUE

\* ComparisonResult(...) accepts the fields of response_json
validates(response_json) ==
    /\ response_json.commonTopics # "invalid"
    /\ response_json.differences # "invalid"
    /\ response_json.recommendation # "invalid"

\* response_json.get(field, default) of each field
model_result(response_json) ==
    [commonTopics |-> IF response_json.commonTopics = "missing" THEN <<>>
                      ELSE <<"a topic of the model">>,
     differences |-> IF response_json.differences = "missing" THEN <<>>
                     ELSE << <<"a difference of the model">> >>,
     recommendation |-> IF response_json.recommendation = "missing" THEN <<>>
                        ELSE <<"a recommendation of the model">>]

\* what makes compare_videos call _generate_fallback_comparison, apart from
\* a JSON object that ComparisonResult rejects
FallbackOutcomes(c) ==
    IF c.summaries = <<>> THEN {"no summaries"}
    ELSE IF ~c.openai_api_key THEN {"missing API key"}
    ELSE {"request raised", "non-JSON text", "JSON not an object"}

ComparisonInit ==
    /\ \E service \in {"VideoComparisonService", "ComparisonAgent"},
          openai_api_key \in BOOLEAN, summaries \in SummaryLists :
          comparison = [pc |-> "start", service |-> service,
                        openai_api_key |-> openai_api_key,
                        summaries |-> summaries, titles |-> <<>>,
                        outcome |-> "none",
                        response_json |-> [f \in {} |-> "missing"],
                        source |-> "none", result |-> <<>>]
    /\ IdleBut("comparison")

\* compare_videos without an API key, with a failing request, or on any
\* other exception: _generate_fallback_comparison(summaries)
CompareVideosFallback ==
    /\ comparison.pc = "start"
    /\ comparison.service = "VideoComparisonService"
    /\ \E outcome \in FallbackOutcomes(comparison) :
          LET titles == [i \in DOMAIN comparison.summaries |->
                            service_title(comparison.summaries[i], i)]
          IN comparison' = [comparison EXCEPT
                               !.pc = "done", !.titles = titles,
                               !.outcome = outcome,
                               !.source = "fallback",
                               !.result = fallback_result(titles)]
    /\ Frame("comparison")

\* compare_videos when the response parses to a JSON object: the result of
\* the model, or the fallback when ComparisonResult rejects the fields
CompareVideosModel ==
    /\ comparison.pc = "start"
    /\ comparison.service = "VideoComparisonService"
    /\ comparison.openai_api_key
    /\ comparison.summaries # <<>>
    /\ \E response_json \in JsonObjects :
          LET titles == [i \in DOMAIN comparison.summaries |->
                            service_title(comparison.summaries[i], i)]
          IN comparison' =
                IF validates(response_json)
                THEN [comparison EXCEPT
                         !.pc = "done", !.source = "model",
                         !.outcome = "JSON object",
                         !.response_json = response_json,
                         !.result = model_result(response_json)]
                ELSE [comparison EXCEPT
                         !.pc = "done", !.titles = titles,
                         !.source = "fallback",
                         !.outcome = "JSON object",
                         !.response_json = response_json,
                         !.result = fallback_result(titles)]
    /\ Frame("comparison")

\* ComparisonAgent._generate_fallback_comparison(summaries)
AgentFallbackComparison ==
    /\ comparison.pc = "start"
    /\ comparison.service = "ComparisonAgent"
    /\ LET titles == [i \in DOMAIN comparison.summaries |->
                         agent_title(comparison.summaries[i], i)]
       IN comparison' = [comparison EXCEPT !.pc = "done", !.titles = titles,
                                           !.outcome = "fallback of the agent",
                                           !.source = "fallback",
                                           !.result = fallback_result(titles)]
    /\ Frame("comparison")

ComparisonNext ==
    CompareVideosFallback \/ CompareVideosModel \/ AgentFallbackComparison

SpecComparison == ComparisonInit /\ [][ComparisonNext]_vars

\* text names a and, after it, b
NamesInOrder(text, a, b) ==
    \E i \in 1..(Len(text) + 1), j \in 1..(Len(text) + 1) :
        /\ i + Len(a) <= j
        /\ j + Len(b) - 1 <= Len(text)
        /\ SubSeq(text, i, i + Len(a) - 1) = a
        /\ SubSeq(text, j, j + Len(b) - 1) = b

\* the fallback compared two or more summaries, the first two with a title
FallbackOfTitledSummaries ==
    /\ comparison.pc = "done"
    /\ comparison.source = "fallback"
    /\ Len(comparison.summaries) >= 2
    /\ comparison.summaries[1].has_title
    /\ comparison.summaries[2].has_title

\* C9: the fallback comparison of two or more summaries names, in every
\* entry of differences and in the recommendation, the first summary's title
\* and after it the second summary's title.
C9_FallbackNamesTitlesInOrder ==
    FallbackOfTitledSummaries =>
        LET first == comparison.summaries[1].title
            second == comparison.summaries[2].title
        IN /\ Len(comparison.result.differences) >= 1
           /\ \A k \in DOMAIN comparison.result.differences :
                 NamesInOrder(comparison.result.differences[k], first, second)
           /\ NamesInOrder(comparison.result.recommendation, first, second)

\* three summaries, the first titled "A X" and the second "X"
C9_Witness ==
    /\ FallbackOfTitledSummaries
    /\ Len(comparison.summaries) = 3
    /\ comparison.summaries[1].title = <<"A", "X">>
    /\ comparison.summaries[2].title = <<"X">>
    /\ comparison.result.recommendation[2] = "A"

\* the titles _generate_fallback_comparison reads from the summaries
ServiceTitles ==
    [i \in DOMAIN comparison.summaries |->
        service_title(comparison.summaries[i], i)]

\* C12: compare_videos always ends with a ComparisonResult; after a missing
\* API key, an exception, a non-JSON text or fields of the wrong shape it is
\* the templated fallback built from the titles, and only a valid JSON
\* object gives a result of the model.
C12_CompareVideosAlwaysReturns ==
    comparison.service = "VideoComparisonService" =>
        /\ comparison.pc \in {"start", "done"}
        /\ comparison.pc = "done" =>
              /\ DOMAIN comparison.result
                    = {"commonTopics", "differences", "recommendation"}
              /\ comparison.source = "model"
                    <=> /\ comparison.outcome = "JSON object"
                        /\ \A f \in DOMAIN comparison.response_json :
                              comparison.response_json[f] # "invalid"
              /\ comparison.source = "fallback"
                    <=> comparison.result = fallback_result(ServiceTitles)

\* a response with a recommendation of the wrong shape ended in the
\* fallback that names two titles
C12_Witness ==
    /\ comparison.service = "VideoComparisonService"
    /\ comparison.pc = "done"
    /\ comparison.outcome = "JSON object"
    /\ comparison.response_json.recommendation = "invalid"
    /\ comparison.source = "fallback"
    /\ Len(comparison.titles) = 2
    /\ comparison.titles[1] = <<"A">>
    /\ comparison.result.differences[1][1] = "A"

(***************************************************************************)
(* AgentOrchestrator.summarize_video of simple_app: the transcript agent   *)
(* (ImprovedTranscriptAgent, or FallbackTranscriptAgent when the agent     *)
(* modules are missing), then the summary agent.                           *)
(***************************************************************************)
MaxItems == 3

ItemTexts == {<<>>, <<"t">>, <<"u">>}
FetchedItems == UNION {[1..n -> ItemTexts] : n \in 0..MaxItems}
FetchFailures == {"no captions", "video not found", "other exception"}

no_transcript_placeholder == "No transcript available for this video."

OrchestratorInit ==
    /\ \E agents_available \in BOOLEAN, video_id \in {"v1", "v2"},
          items \in FetchedItems :
          orchestrator = [pc |-> "transcript", agents_available |-> agents_available,
                          video_id |-> video_id, items |-> items,
                          fetch_failure |-> "none", transcript |-> <<>>,
                          placeholder |-> FALSE, status |-> 0, result |-> "none"]
    /\ IdleBut("orchestrator")

\* ImprovedTranscriptAgent.process: the texts of the items joined by " "
ImprovedTranscriptFetched ==
    /\ orchestrator.pc = "transcript"
    /\ orchestrator.agents_available
    /\ orchestrator' = [orchestrator EXCEPT
                           !.pc = "summary",
                           !.transcript = Join(orchestrator.items, <<" ">>)]
    /\ Frame("orchestrator")

\* ImprovedTranscriptAgent.process when fetching raises: HTTPException(404),
\* which summarize_video does not catch
ImprovedTranscriptFails ==
    /\ orchestrator.pc = "transcript"
    /\ orchestrator.agents_available
    /\ \E failure \in FetchFailures :
          orchestrator' = [orchestrator EXCEPT !.pc = "raised", !.items = <<>>,
                                               !.fetch_failure = failure,
                                               !.status = 404]
    /\ Frame("orchestrator")

\* FallbackTranscriptAgent.process with a transcript
FallbackTranscriptFetched ==
    /\ orchestrator.pc = "transcript"
    /\ ~orchestrator.agents_available
    /\ Join(orchestrator.items, <<" ">>) # <<>>
    /\ orchestrator' = [orchestrator EXCEPT
                           !.pc = "summary",
                           !.transcript = Join(orchestrator.items, <<" ">>)]
    /\ Frame("orchestrator")

\* FallbackTranscriptAgent.process when fetching raises or returns nothing:
\* the placeholder transcript
FallbackTranscriptFails ==
    /\ orchestrator.pc = "transcript"
    /\ ~orchestrator.agents_available
    /\ \E failure \in FetchFailures :
          orchestrator' = [orchestrator EXCEPT !.pc = "summary", !.items = <<>>,
                                               !.fetch_failure = failure,
                                               !.placeholder = TRUE]
    /\ Frame("orchestrator")

\* self.summary_agent.process((transcript, video_id)) returns its Summary
SummaryAgentProcess ==
    /\ orchestrator.pc = "summary"
    /\ orchestrator' = [orchestrator EXCEPT !.pc = "done", !.result = "Summary"]
    /\ Frame("orchestrator")

OrchestratorNext ==
    \/ ImprovedTranscriptFetched \/ ImprovedTranscriptFails
    \/ FallbackTranscriptFetched \/ FallbackTranscriptFails
    \/ SummaryAgentProcess

SpecOrchestrator == OrchestratorInit /\ [][OrchestratorNext]_vars

\* C11: when fetching the transcript fails, summarize_video does not fail:
\* it goes on with the placeholder transcript and returns a Summary.
C11_FetchFailureKeepsSummarizing ==
    orchestrator.fetch_failure # "none" =>
        /\ orchestrator.pc # "raised"
        /\ orchestrator.placeholder
        /\ orchestrator.pc = "done" => orchestrator.result = "Summary"

(***************************************************************************)
(* The whole process operation of ImprovedSummaryAgent and SummaryAgent:   *)
(* summary step, its fallback, key-point step, its fallback, and the       *)
(* returned Summary.  Each completion attempt has one of the outcomes of   *)
(* LLMOutcomes; the transcript is long enough for both steps to reach the  *)
(* completion endpoint.                                                    *)
(***************************************************************************)
MaxParsed == 4

OpenAINumPoints == 7

\* ImprovedSummaryAgent of improved_summary_agent.py, SummaryAgent of
\* simple_app.py, and ImprovedSummaryAgent of summary_agent_improved.py,
\* which delegates to OpenAISummarizer
ProcessAgents == {"improved", "simple_app", "summary_agent_improved"}

\* what one attempt of the summary request does
LLMOutcomes == {"raises", "empty", "short", "ok"}

SummaryAttempts == [1..max_retries -> LLMOutcomes]

\* what one attempt of the key-point request does: n is the number of key
\* points that parse from the response
KeyPointOutcomes ==
    {[kind |-> k, n |-> 0] : k \in {"raises", "empty", "unparsable"}}
        \cup {[kind |-> "parsed", n |-> n] : n \in 1..MaxParsed}

KeyPointAttempts == [1..max_retries -> KeyPointOutcomes]

\* a retry loop without its except clause: the exception of an attempt
\* escapes the loop
uncaught(kind) == kind

\* `except Exception as e:` inside the retry loop: the attempt just failed
caught(kind) == IF kind = "raises" THEN "failed" ELSE kind

RECURSIVE summary_retry_loop(_, _)
\* for attempt in range(max_retries): return the summary of the first
\* attempt whose response is long enough; None when there is none
summary_retry_loop(attempts, attempt) ==
    IF attempt > Len(attempts) THEN "None"
    ELSE LET outcome == caught(attempts[attempt]) IN
         IF outcome = "raises" THEN "raised"
         ELSE IF outcome = "ok" THEN "model"
         ELSE summary_retry_loop(attempts, attempt + 1)

\* a test that takes any non-empty parsed list
any_key_points(n) == n >= 1

\* `if len(key_points) >= 3:` a parsed list is used only with 3 key points
enough_key_points(n) == n >= MinKeyPoints

\* a key-point list: where it comes from, its length n, and how many of
\* its key points were parsed from a model response
KeyPoints(source, n, parsed) == [source |-> source, n |-> n, parsed |-> parsed]

RECURSIVE key_point_retry_loop(_, _)
\* for attempt in range(max_retries): return the key points of the first
\* attempt from which at least 3 parsed; None when there is none
key_point_retry_loop(attempts, attempt) ==
    IF attempt > Len(attempts) THEN KeyPoints("None", 0, 0)
    ELSE LET outcome == attempts[attempt] IN
         IF caught(outcome.kind) = "raises" THEN KeyPoints("raised", 0, 0)
         ELSE IF outcome.kind = "parsed" /\ enough_key_points(outcome.n)
              THEN KeyPoints("model", outcome.n, outcome.n)
         ELSE key_point_retry_loop(attempts, attempt + 1)

\* OpenAISummarizer.extract_key_points: one request; the key points that
\* parse are kept and, when they are fewer than num_points, synthetic ones
\* are added up to num_points; _simple_extract_key_points when the request
\* raises
openai_extract_key_points(outcome, num_points) ==
    IF caught(outcome.kind) = "raises" THEN KeyPoints("raised", 0, 0)
    ELSE IF outcome.kind = "raises" THEN KeyPoints("simple", num_points, 0)
    ELSE IF outcome.n = 0 THEN KeyPoints("synthetic", num_points, 0)
    ELSE IF outcome.n < num_points THEN KeyPoints("mixed", num_points, outcome.n)
    ELSE KeyPoints("model", num_points, num_points)

\* summary_agent_improved uses OpenAISummarizer only with an API key
ProcessInit ==
    /\ \E agent \in ProcessAgents, api_key \in BOOLEAN :
          /\ agent = "summary_agent_improved" => api_key
          /\ process = [pc |-> "summary", agent |-> agent, api_key |-> api_key,
                        summary_attempts |-> <<>>, key_point_attempts |-> <<>>,
                        summary_text |-> "None",
                        key_points |-> KeyPoints("None", 0, 0),
                        result |-> "none"]
    /\ IdleBut("process")

\* summary_text = self.generate_openai_summary(processed_transcript, title)
\* followed by `if not summary_text`; without a key no request is made
ProcessGenerateSummary ==
    /\ process.pc = "summary"
    /\ process.agent # "summary_agent_improved"
    /\ \E attempts \in (IF process.api_key THEN SummaryAttempts ELSE {<<>>}) :
          LET summary_text == summary_retry_loop(attempts, 1) IN
          process' = [process EXCEPT
              !.summary_attempts = attempts,
              !.summary_text = IF summary_text = "raised" THEN "None"
                               ELSE summary_text,
              !.pc = IF summary_text = "raised" THEN "raised"
                     ELSE IF summary_text = "None" THEN "fallback_summary"
                     ELSE "key_points"]
    /\ Frame("process")

\* summary_text = self.generate_fallback_summary(processed_transcript): the
\* extractive summary, or the first 300 words when the summarizer raises
ProcessFallbackSummary ==
    /\ process.pc = "fallback_summary"
    /\ \E summarizer_raises \in BOOLEAN :
          process' = [process EXCEPT
              !.summary_text = IF summarizer_raises THEN "first words"
                               ELSE "extractive",
              !.pc = "key_points"]
    /\ Frame("process")

\* key_points = self.extract_key_points_with_openai(...) followed by
\* `if not key_points or len(key_points) < 3`
ProcessExtractKeyPoints ==
    /\ process.pc = "key_points"
    /\ process.agent # "summary_agent_improved"
    /\ \E attempts \in (IF process.api_key THEN KeyPointAttempts ELSE {<<>>}) :
          LET key_points == key_point_retry_loop(attempts, 1) IN
          process' = [process EXCEPT
              !.key_point_attempts = attempts,
              !.key_points = IF key_points.source = "raised"
                             THEN KeyPoints("None", 0, 0) ELSE key_points,
              !.pc = IF key_points.source = "raised" THEN "raised"
                     ELSE IF key_points.source = "None" \/ key_points.n < 3
                     THEN "fallback_key_points"
                     ELSE "return"]
    /\ Frame("process")

\* key_points = self.extract_key_points_fallback(...): one key point for each
\* of the 5 segments, by LexRank or, when that raises, by
\* simple_extract_key_points
ProcessFallbackKeyPoints ==
    /\ process.pc = "fallback_key_points"
    /\ \E lexrank_raises \in BOOLEAN :
          process' = [process EXCEPT
              !.key_points = KeyPoints(IF lexrank_raises THEN "simple"
                                       ELSE "lexrank", 5, 0),
              !.pc = "return"]
    /\ Frame("process")

\* summary_agent_improved: summary_text = self.summarizer.summarize(...),
\* which returns the accepted response of one of its 3 attempts, or else
\* _simple_summarize(text)
SummarizerSummarize ==
    /\ process.pc = "summary"
    /\ process.agent = "summary_agent_improved"
    /\ \E attempts \in SummaryAttempts :
          LET summary_text == summary_retry_loop(attempts, 1) IN
          process' = [process EXCEPT
              !.summary_attempts = attempts,
              !.summary_text = IF summary_text = "model" THEN "model"
                               ELSE "extractive",
              !.pc = IF summary_text = "raised" THEN "raised"
                     ELSE "key_points"]
    /\ Frame("process")

\* summary_agent_improved:
\* key_points = self.summarizer.extract_key_points(transcript, video_id,
\* num_points=7)
SummarizerExtractKeyPoints ==
    /\ process.pc = "key_points"
    /\ process.agent = "summary_agent_improved"
    /\ \E outcome \in KeyPointOutcomes :
          LET key_points == openai_extract_key_points(outcome, OpenAINumPoints) IN
          process' = [process EXCEPT
              !.key_point_attempts = <<outcome>>,
              !.key_points = IF key_points.source = "raised"
                             THEN KeyPoints("None", 0, 0) ELSE key_points,
              !.pc = IF key_points.source = "raised" THEN "raised"
                     ELSE "return"]
    /\ Frame("process")

\* return Summary(videoId, title, summary=summary_text, keyPoints=key_points)
ProcessReturn ==
    /\ process.pc = "return"
    /\ process' = [process EXCEPT !.pc = "done", !.result = "Summary"]
    /\ Frame("process")

ProcessNext ==
    \/ ProcessGenerateSummary \/ ProcessFallbackSummary
    \/ ProcessExtractKeyPoints \/ ProcessFallbackKeyPoints
    \/ SummarizerSummarize \/ SummarizerExtractKeyPoints
    \/ ProcessReturn

SpecProcess == ProcessInit /\ [][ProcessNext]_vars

\* no attempt of the sequence gave a usable summary
NoSummaryFromModel(attempts) ==
    \A i \in 1..Len(attempts) : attempts[i] # "ok"

\* no attempt of the sequence gave a key point: each one raised or its
\* response was empty or did not parse
NoKeyPointsFromModel(attempts) ==
    \A i \in 1..Len(attempts) : attempts[i].kind # "parsed"

\* C13: process never raises because of what the completion endpoint does:
\* whatever the attempts do it returns a Summary, and when no attempt gave
\* a usable summary (key-point list) the summary text (key-point list) is
\* the one of the fallback chain.
C13_ProcessNeverRaisesOnModelFailure ==
    /\ process.pc # "raised"
    /\ process.pc = "done" =>
          /\ process.result = "Summary"
          /\ process.summary_text \in {"model", "extractive", "first words"}
          /\ process.key_points.source \in
                {"model", "mixed", "lexrank", "simple", "synthetic"}
          /\ process.key_points.n >= 1
          /\ NoSummaryFromModel(process.summary_attempts) =>
                process.summary_text \in {"extractive", "first words"}
          /\ NoKeyPointsFromModel(process.key_point_attempts) =>
                /\ process.key_points.source \in
                      {"lexrank", "simple", "synthetic"}
                /\ process.key_points.parsed = 0

\* every attempt of both steps raised, and process returned a Summary
C13_Witness ==
    /\ process.pc = "done"
    /\ process.api_key
    /\ process.agent = "improved"
    /\ \A i \in 1..max_retries :
          /\ process.summary_attempts[i] = "raises"
          /\ process.key_point_attempts[i].kind = "raises"
    /\ process.summary_text = "first words"
    /\ process.key_points.source = "simple"

\* C17: when fewer than 3 key points parsed from the model output, the key
\* points of the returned Summary all come from the extractive fallback;
\* model-derived key points appear only when at least 3 of them parsed.
C17_FewParsedKeyPointsAllFromFallback ==
    process.pc = "done" =>
        (process.key_points.parsed > 0 =>
            \E i \in 1..Len(process.key_point_attempts) :
                process.key_point_attempts[i].n >= MinKeyPoints)

\* C17 holds of the two agents that have their own key-point loop
C17_AgentsWithOwnLoop ==
    (process.pc = "done" /\ process.agent # "summary_agent_improved") =>
        C17_FewParsedKeyPointsAllFromFallback

(***************************************************************************)
(* OpenAISummarizer.summarize on long texts: summarize_long_text splits    *)
(* the text into chunks and calls summarize on each chunk.  A text is a    *)
(* sequence of paragraphs, a paragraph a sequence of sentences, a sentence *)
(* its number of words; every sentence ends with a full stop.  The calls   *)
(* in progress are a stack of frames, one for each summarize_long_text.    *)
(***************************************************************************)
MaxParagraphs == 3
MaxDepth == 3

OpenAIChunkWords == 4000

SentenceWords == {60, 2500, 4001}

ParagraphPool ==
    {<<a>> : a \in SentenceWords}
        \cup {<<a, b>> : a \in SentenceWords, b \in SentenceWords}

LongTexts ==
    UNION {[1..n -> ParagraphPool] : n \in 1..MaxParagraphs}

RECURSIVE SumWords(_)
SumWords(sentences) ==
    IF sentences = <<>> THEN 0 ELSE Head(sentences) + SumWords(Tail(sentences))

RECURSIVE FlattenText(_)
FlattenText(text) ==
    IF text = <<>> THEN <<>> ELSE Head(text) \o FlattenText(Tail(text))

\* len(text.split())
TextWords(text) == SumWords(FlattenText(text))

RECURSIVE openai_combine_units(_, _, _, _)
\* _combine_units: a unit joins the current chunk while the chunk stays
\* within chunk_size; otherwise the current chunk, if any, is closed and the
\* unit starts a new one
openai_combine_units(units, chunk_size, chunks, current_chunk) ==
    IF units = <<>>
    THEN IF current_chunk # <<>> THEN Append(chunks, current_chunk) ELSE chunks
    ELSE LET unit == Head(units) IN
         IF SumWords(current_chunk) + SumWords(unit) <= chunk_size
         THEN openai_combine_units(Tail(units), chunk_size, chunks,
                                   current_chunk \o unit)
         ELSE openai_combine_units(Tail(units), chunk_size,
                                   IF current_chunk # <<>>
                                   THEN Append(chunks, current_chunk)
                                   ELSE chunks,
                                   unit)

\* _split_into_chunks: the units are the paragraphs, or the sentences when
\* the text has fewer than 3 paragraphs; a chunk is its units joined by " "
openai_split_into_chunks(text, chunk_size) ==
    IF Len(text) < 3
    THEN LET sentences == FlattenText(text) IN
         openai_combine_units([i \in 1..Len(sentences) |-> <<sentences[i]>>],
                              chunk_size, <<>>, <<>>)
    ELSE openai_combine_units(text, chunk_size, <<>>, <<>>)

\* the frame of one summarize_long_text(text)
LongTextFrame(text) ==
    [chunks |-> openai_split_into_chunks(text, OpenAIChunkWords), i |-> 1]

LongTextInit ==
    /\ \E text \in LongTexts :
          longtext = [pc |-> "summarize", text |-> text, stack |-> <<>>,
                      requests |-> 0, entered |-> 0]
    /\ IdleBut("longtext")

\* summarize(text) called from outside: a short text is returned, a text
\* of at most 4000 words takes one request, a longer one enters
\* summarize_long_text
SummarizeText ==
    /\ longtext.pc = "summarize"
    /\ LET words == TextWords(longtext.text) IN
       longtext' =
           IF words < OpenAIShortTextWords
           THEN [longtext EXCEPT !.pc = "done"]
           ELSE IF words > OpenAISinglePassWords
           THEN [longtext EXCEPT !.pc = "long",
                                 !.stack = <<LongTextFrame(longtext.text)>>,
                                 !.entered = 1]
           ELSE [longtext EXCEPT !.pc = "done", !.requests = 1]
    /\ Frame("longtext")

\* the top frame's `chunk_summary = self.summarize(chunk, ...)` for a chunk
\* that summarize handles itself: returned as it is, or one request
SummarizeChunk ==
    /\ longtext.pc = "long"
    /\ LET depth == Len(longtext.stack)
           frame == longtext.stack[depth] IN
       /\ frame.i <= Len(frame.chunks)
       /\ LET words == SumWords(frame.chunks[frame.i]) IN
          /\ words <= OpenAISinglePassWords
          /\ longtext' = [longtext EXCEPT
                 !.stack[depth].i = @ + 1,
                 !.requests = IF words < OpenAIShortTextWords THEN @
                              ELSE @ + 1]
    /\ Frame("longtext")

\* the top frame's `self.summarize(chunk, ...)` for a chunk of more than
\* 4000 words: summarize calls summarize_long_text(chunk)
SummarizeChunkLong ==
    /\ longtext.pc = "long"
    /\ LET depth == Len(longtext.stack)
           frame == longtext.stack[depth] IN
       /\ frame.i <= Len(frame.chunks)
       /\ SumWords(frame.chunks[frame.i]) > OpenAISinglePassWords
       /\ depth < MaxDepth
       /\ longtext' = [longtext EXCEPT
              !.stack = Append(@, LongTextFrame(<<frame.chunks[frame.i]>>)),
              !.entered = @ + 1]
    /\ Frame("longtext")

\* the top frame has summarized all its chunks: summarize_long_text returns
\* (after at most one more request) and the caller moves to its next chunk
LongTextReturns ==
    /\ longtext.pc = "long"
    /\ LET depth == Len(longtext.stack)
           frame == longtext.stack[depth] IN
       /\ frame.i > Len(frame.chunks)
       /\ \E final_request \in {0, 1} :
             longtext' =
                 IF depth = 1
                 THEN [longtext EXCEPT !.pc = "done", !.stack = <<>>,
                                       !.requests = @ + final_request]
                 ELSE [longtext EXCEPT
                          !.stack = [SubSeq(@, 1, depth - 1)
                                        EXCEPT ![depth - 1].i = @ + 1],
                          !.requests = @ + final_request]
    /\ Frame("longtext")

LongTextNext ==
    \/ SummarizeText \/ SummarizeChunk \/ SummarizeChunkLong
    \/ LongTextReturns

SpecLongText == LongTextInit /\ [][LongTextNext]_vars

\* C14: summarize_long_text is never re-entered: every chunk handed to a
\* recursive summarize call has at most 4000 words, so at most one
\* summarize_long_text is in progress.
C14_LongTextNeverReentered ==
    /\ Len(longtext.stack) <= 1
    /\ \A d \in 1..Len(longtext.stack) :
          \A i \in 1..Len(longtext.stack[d].chunks) :
             SumWords(longtext.stack[d].chunks[i]) <= OpenAIChunkWords

(***************************************************************************)
(* The chunked summarization path: the chunk loop and the final pass of    *)
(* ImprovedSummaryAgent.generate_openai_summary,                           *)
(* SummaryAgent._generate_openai_summary and                               *)
(* OpenAISummarizer.summarize_long_text.  A chunk summary is a record      *)
(* naming its chunk and where it came from; a text made of chunk summaries *)
(* is a sequence of such records, labels and separators.                   *)
(***************************************************************************)
MaxChunks == 3

\* the sizes of a chunk that the summarizer distinguishes: OpenAISummarizer
\* returns a chunk of fewer than 100 words as it is and re-enters
\* summarize_long_text above 4000 words; the agents slice by characters and
\* treat every chunk alike
ChunkSizes(agent) ==
    IF agent = "openai" THEN {"short", "normal", "long"} ELSE {"normal"}

\* what a completion attempt returns, by its length after strip()
ResponseLengths == {"empty", "short", "long"}

Token(t, chunk, kind) == [t |-> t, chunk |-> chunk, kind |-> kind]

ChunkSummary(chunk, kind) == Token("summary", chunk, kind)

\* the test after the chunk loop without its condition
always_fallback(chunk_summary) == TRUE

\* `if not chunk_summary or len(chunk_summary) <= 50:` after the chunk loop
chunk_needs_fallback(chunk_summary) == chunk_summary # "long"

RECURSIVE labelled_join(_, _)
\* "\n\n".join([f"Part {i+1}: {summary}" for i, summary in enumerate(...)])
labelled_join(chunk_summaries, i) ==
    IF i > Len(chunk_summaries) THEN <<>>
    ELSE (IF i > 1 THEN <<Token("blank line", 0, "")>> ELSE <<>>)
            \o <<Token("Part", i, ""), chunk_summaries[i]>>
            \o labelled_join(chunk_summaries, i + 1)

RECURSIVE space_join(_, _)
\* " ".join(chunk_summaries)
space_join(chunk_summaries, i) ==
    IF i > Len(chunk_summaries) THEN <<>>
    ELSE (IF i > 1 THEN <<Token("space", 0, "")>> ELSE <<>>)
            \o <<chunk_summaries[i]>>
            \o space_join(chunk_summaries, i + 1)

\* the chunks that _combine_units can make of a text of more than 4000
\* words: a chunk is closed only when the next unit would carry it over 4000
\* words, so two neighbours together hold more than 4000 words, and a lone
\* chunk is the whole text; the agents slice a transcript of more than
\* max_chunk_size characters, which gives at least 2 chunks
Chunkable(agent, chunks) ==
    IF agent = "openai"
    THEN /\ Len(chunks) = 1 => chunks[1] = "long"
         /\ \A j \in 1..(Len(chunks) - 1) :
               ~(chunks[j] = "short" /\ chunks[j + 1] = "short")
    ELSE Len(chunks) >= 2

ChunkedInit ==
    /\ \E agent \in Agents, k \in 1..MaxChunks :
          \E chunks \in [1..k -> ChunkSizes(agent)] :
             /\ Chunkable(agent, chunks)
             /\ chunked = [pc |-> "chunk", agent |-> agent, chunks |-> chunks,
                           i |-> 1, attempt |-> 0, chunk_summary |-> "None",
                           accepted |-> {}, requests |-> [j \in 1..k |-> 0],
                           chunk_summaries |-> <<>>,
                           combined_summaries |-> <<>>, final_failed |-> FALSE,
                           sleeps |-> 0, result |-> <<>>]
    /\ IdleBut("chunked")

\* one attempt of the chunk loop of the agents that responds: a response of
\* more than 50 characters is appended and ends the loop
ChunkAttemptResponds ==
    /\ chunked.pc = "chunk"
    /\ chunked.agent # "openai"
    /\ chunked.attempt < max_retries
    /\ \E response \in ResponseLengths :
          chunked' = [chunked EXCEPT
              !.chunk_summary = response,
              !.requests[chunked.i] = @ + 1,
              !.chunk_summaries = IF response = "long"
                                  THEN Append(@, ChunkSummary(chunked.i, "model"))
                                  ELSE @,
              !.accepted = IF response = "long" THEN @ \cup {chunked.i} ELSE @,
              !.attempt = @ + 1,
              !.pc = IF response = "long" \/ chunked.attempt + 1 = max_retries
                     THEN "after loop" ELSE "chunk"]
    /\ Frame("chunked")

\* one attempt of the chunk loop of the agents that raises: chunk_summary
\* keeps what the attempt before left in it, and time.sleep(2) follows
\* unless it was the last attempt
ChunkAttemptRaises ==
    /\ chunked.pc = "chunk"
    /\ chunked.agent # "openai"
    /\ chunked.attempt < max_retries
    /\ chunked' = [chunked EXCEPT
           !.requests[chunked.i] = @ + 1,
           !.sleeps = IF chunked.attempt < max_retries - 1 THEN @ + 1 ELSE @,
           !.attempt = @ + 1,
           !.pc = IF chunked.attempt + 1 = max_retries
                  THEN "after loop" ELSE "chunk"]
    /\ Frame("chunked")

\* after the attempts of one chunk: the extractive summary of the chunk is
\* appended when no attempt was accepted; then the next chunk, or the final
\* pass over "\n\n".join(Part i: summary)
ChunkAfterLoop ==
    /\ chunked.pc = "after loop"
    /\ LET chunk_summaries ==
               IF chunk_needs_fallback(chunked.chunk_summary)
               THEN Append(chunked.chunk_summaries,
                           ChunkSummary(chunked.i, "extractive"))
               ELSE chunked.chunk_summaries
           last == chunked.i = Len(chunked.chunks) IN
       chunked' = [chunked EXCEPT
           !.chunk_summaries = chunk_summaries,
           !.chunk_summary = "None",
           !.attempt = 0,
           !.i = @ + 1,
           !.combined_summaries = IF last THEN labelled_join(chunk_summaries, 1)
                                  ELSE @,
           !.pc = IF last THEN "final" ELSE "chunk"]
    /\ Frame("chunked")

\* summarize_long_text: chunk_summaries.append(self.summarize(chunk, ...)).
\* summarize returns a chunk of fewer than 100 words as it is, makes up to 3
\* requests for a chunk of up to 4000 words and returns the accepted
\* response or _simple_summarize(chunk), and for a longer chunk returns what
\* the nested summarize_long_text or, when that raises, _simple_summarize
\* gives
OpenAISummarizeChunk ==
    /\ chunked.pc = "chunk"
    /\ chunked.agent = "openai"
    /\ LET size == chunked.chunks[chunked.i]
           last == chunked.i = Len(chunked.chunks) IN
       \E kind \in (IF size = "short" THEN {"original"}
                    ELSE IF size = "normal" THEN {"model", "extractive"}
                    ELSE {"nested", "extractive"}),
          attempts \in 1..max_retries :
          /\ size # "normal" => attempts = 1
          /\ (size = "normal" /\ kind = "extractive") => attempts = max_retries
          /\ LET chunk_summaries ==
                     Append(chunked.chunk_summaries,
                            ChunkSummary(chunked.i, kind)) IN
             chunked' = [chunked EXCEPT
                 !.chunk_summaries = chunk_summaries,
                 !.requests[chunked.i] =
                     IF size = "normal" THEN attempts ELSE 0,
                 !.accepted = IF kind = "model" THEN @ \cup {chunked.i} ELSE @,
                 !.i = @ + 1,
                 !.combined_summaries =
                     IF last THEN labelled_join(chunk_summaries, 1) ELSE @,
                 !.pc = IF last THEN "final" ELSE "chunk"]
    /\ Frame("chunked")

\* one attempt of the final pass of the agents that responds: a response of
\* more than 100 characters is returned
FinalAttemptResponds ==
    /\ chunked.pc = "final"
    /\ chunked.agent # "openai"
    /\ chunked.attempt < max_retries
    /\ \E response \in ResponseLengths :
          chunked' = [chunked EXCEPT
              !.attempt = @ + 1,
              !.result = IF response = "long"
                         THEN <<Token("final summary", 0, response)>> ELSE @,
              !.pc = IF response = "long" THEN "done"
                     ELSE IF chunked.attempt + 1 = max_retries
                     THEN "final failed" ELSE "final"]
    /\ Frame("chunked")

\* one attempt of the final pass of the agents that raises
FinalAttemptRaises ==
    /\ chunked.pc = "final"
    /\ chunked.agent # "openai"
    /\ chunked.attempt < max_retries
    /\ chunked' = [chunked EXCEPT
           !.sleeps = IF chunked.attempt < max_retries - 1 THEN @ + 1 ELSE @,
           !.attempt = @ + 1,
           !.pc = IF chunked.attempt + 1 = max_retries
                  THEN "final failed" ELSE "final"]
    /\ Frame("chunked")

\* after the final loop of the agents: return " ".join(chunk_summaries)
FinalReturnsChunkSummaries ==
    /\ chunked.pc = "final failed"
    /\ chunked' = [chunked EXCEPT
           !.final_failed = TRUE,
           !.result = space_join(chunked.chunk_summaries, 1),
           !.pc = "done"]
    /\ Frame("chunked")

\* the end of summarize_long_text: combined_summary is returned when it has
\* at most max_length * 1.5 words; otherwise one request is made, whose
\* response is returned whatever its length, and " ".join(chunk_summaries)
\* when the request raises
OpenAIFinalPass ==
    /\ chunked.pc = "final"
    /\ chunked.agent = "openai"
    /\ \E still_too_long \in BOOLEAN,
          response \in ResponseLengths \cup {"raises"} :
          /\ ~still_too_long => response = "raises"
          /\ chunked' = [chunked EXCEPT
                 !.attempt = IF still_too_long THEN 1 ELSE 0,
                 !.final_failed = still_too_long /\ response # "long",
                 !.result = IF ~still_too_long THEN chunked.combined_summaries
                            ELSE IF response = "raises"
                            THEN space_join(chunked.chunk_summaries, 1)
                            ELSE <<Token("final summary", 0, response)>>,
                 !.pc = "done"]
    /\ Frame("chunked")

ChunkedNext ==
    \/ ChunkAttemptResponds \/ ChunkAttemptRaises \/ ChunkAfterLoop
    \/ OpenAISummarizeChunk
    \/ FinalAttemptResponds \/ FinalAttemptRaises
    \/ FinalReturnsChunkSummaries
    \/ OpenAIFinalPass

SpecChunked == ChunkedInit /\ [][ChunkedNext]_vars

\* the chunk loop stands between two chunks, or has ended
BetweenChunks ==
    /\ chunked.pc # "idle"
    /\ chunked.pc # "after loop"
    /\ chunked.pc = "chunk" => chunked.attempt = 0

\* the entry of chunk j is the accepted response of one of its at most 3
\* attempts, and the extractive summary of the chunk when none was accepted
ModelOrExtractive(j) ==
    /\ chunked.requests[j] <= max_retries
    /\ chunked.chunk_summaries[j].kind =
           IF j \in chunked.accepted THEN "model" ELSE "extractive"

SummariesIn(text) == SelectSeq(text, LAMBDA token : token.t = "summary")

\* C16: when the final pass fails (every attempt raises or returns a too
\* short response) the returned summary is the chunk summaries verbatim,
\* each once and in chunk order, and it is the very concatenation that was
\* submitted to the final pass.
C16_FinalFailureReturnsSubmittedConcatenation ==
    (chunked.pc = "done" /\ chunked.final_failed) =>
        /\ SummariesIn(chunked.result) = chunked.chunk_summaries
        /\ chunked.result = chunked.combined_summaries

\* the part of C16 that each implementation keeps when its final request
\* raises: the chunk summaries, each once, in chunk order, joined by " "
FinalRaiseReturnsChunkSummaries ==
    (chunked.pc = "done" /\ chunked.final_failed
        /\ \A i \in 1..Len(chunked.result) :
              chunked.result[i].t # "final summary") =>
        /\ SummariesIn(chunked.result) = chunked.chunk_summaries
        /\ chunked.result = space_join(chunked.chunk_summaries, 1)

(***************************************************************************)
(* The extractive key-point fallbacks: the segments they cut the words of  *)
(* the transcript into, and their synthetic timestamps.  Words are counted *)
(* from 0; a segment is the half-open range [start, end) of word indices.  *)
(***************************************************************************)
MaxWords == 12
MaxNumPoints == 12

\* SummaryAgent._split_transcript_into_segments,
\* ImprovedSummaryAgent.split_transcript_into_segments,
\* OpenAISummarizer._simple_extract_key_points, and the loop of
\* OpenAISummarizer.extract_key_points that adds the missing key points
SegmentImpls == {"simple_app", "improved", "openai_simple", "openai_missing"}

Segment(start, end) == [start |-> start, end |-> end]

SmallerOf(a, b) == IF a <= b THEN a ELSE b

LargerOf(a, b) == IF a >= b THEN a ELSE b

\* seconds = remainder * 60 / num_points, rounded down
exact_seconds(remainder, num_points) == (remainder * 60) \div num_points

\* seconds = ((i * 10) % num_points) * (60 // num_points)
synthetic_seconds(remainder, num_points) == remainder * (60 \div num_points)

\* minutes = (i * 10) // num_points, seconds as above; printed as
\* f"{minutes}:{seconds:02d}"
synthetic_timestamp(i, num_points) ==
    [minutes |-> (i * 10) \div num_points,
     seconds |-> synthetic_seconds((i * 10) % num_points, num_points)]

\* the number of times the loop of the implementation runs
SegmentLoopLength(impl, total_words, num_segments) ==
    IF impl = "openai_simple"
    THEN SmallerOf(num_segments,
                   total_words \div LargerOf(1, total_words \div num_segments))
    ELSE num_segments

SegmentsInit ==
    /\ \E impl \in SegmentImpls, total_words \in 0..MaxWords,
          num_segments \in 1..MaxNumPoints :
          segments = [pc |-> "loop", impl |-> impl, total_words |-> total_words,
                      num_segments |-> num_segments, i |-> 0,
                      segments |-> <<>>, timestamps |-> <<>>]
    /\ IdleBut("segments")

\* SummaryAgent._split_transcript_into_segments, one turn of its loop:
\* segment_size = max(1, total_words // num_segments); the loop breaks when
\* start_idx >= total_words
SimpleAppSegment ==
    /\ segments.pc = "loop"
    /\ segments.impl = "simple_app"
    /\ segments.i < segments.num_segments
    /\ LET segment_size ==
               LargerOf(1, segments.total_words \div segments.num_segments)
           start_idx == segments.i * segment_size
           end_idx == SmallerOf(start_idx + segment_size, segments.total_words)
       IN segments' =
              IF start_idx >= segments.total_words
              THEN [segments EXCEPT !.pc = "done"]
              ELSE [segments EXCEPT
                       !.segments = Append(@, Segment(start_idx, end_idx)),
                       !.i = @ + 1]
    /\ Frame("segments")

\* ImprovedSummaryAgent.split_transcript_into_segments, one turn of its
\* loop: segment_size = len(words) // num_segments, and the last segment
\* runs to the end of the words
ImprovedSegment ==
    /\ segments.pc = "loop"
    /\ segments.impl = "improved"
    /\ segments.i < segments.num_segments
    /\ LET segment_size == segments.total_words \div segments.num_segments
           start == segments.i * segment_size
           end == IF segments.i < segments.num_segments - 1
                  THEN start + segment_size ELSE segments.total_words
       IN segments' = [segments EXCEPT
              !.segments = Append(@, Segment(start, end)),
              !.i = @ + 1]
    /\ Frame("segments")

\* OpenAISummarizer._simple_extract_key_points, one turn of its loop over
\* range(min(num_points, len(words) // segment_size))
OpenAISimpleKeyPoint ==
    /\ segments.pc = "loop"
    /\ segments.impl = "openai_simple"
    /\ segments.i < SegmentLoopLength(segments.impl, segments.total_words,
                                      segments.num_segments)
    /\ LET segment_size ==
               LargerOf(1, segments.total_words \div segments.num_segments)
           start_idx == segments.i * segment_size
           end_idx == SmallerOf((segments.i + 1) * segment_size,
                                segments.total_words)
       IN segments' = [segments EXCEPT
              !.segments = Append(@, Segment(start_idx, end_idx)),
              !.timestamps =
                  Append(@, synthetic_timestamp(segments.i,
                                                segments.num_segments)),
              !.i = @ + 1]
    /\ Frame("segments")

\* OpenAISummarizer.extract_key_points when nothing parsed, one turn of the
\* loop over range(missing_points): the segment runs from
\* (i * len(words)) // num_points to ((i + 1) * len(words)) // num_points
OpenAIMissingKeyPoint ==
    /\ segments.pc = "loop"
    /\ segments.impl = "openai_missing"
    /\ segments.i < segments.num_segments
    /\ LET segment_index ==
               (segments.i * segments.total_words) \div segments.num_segments
           segment_end ==
               ((segments.i + 1) * segments.total_words)
                   \div segments.num_segments
       IN segments' = [segments EXCEPT
              !.segments = Append(@, Segment(segment_index, segment_end)),
              !.timestamps =
                  Append(@, synthetic_timestamp(segments.i,
                                                segments.num_segments)),
              !.i = @ + 1]
    /\ Frame("segments")

\* the loop has run its turns: the segments (key points) are returned
SegmentsReturn ==
    /\ segments.pc = "loop"
    /\ segments.i >= SegmentLoopLength(segments.impl, segments.total_words,
                                       segments.num_segments)
    /\ segments' = [segments EXCEPT !.pc = "done"]
    /\ Frame("segments")

SegmentsNext ==
    \/ SimpleAppSegment \/ ImprovedSegment
    \/ OpenAISimpleKeyPoint \/ OpenAIMissingKeyPoint
    \/ SegmentsReturn

SpecSegments == SegmentsInit /\ [][SegmentsNext]_vars

\* the segments holding word w
SegmentsOf(w) ==
    {j \in 1..Len(segments.segments) :
        segments.segments[j].start <= w /\ w < segments.segments[j].end}

\* C18: the fallback cuts the words into N contiguous segments, in order
\* and without overlap, whose union is all the words: every word is in
\* exactly one segment, whatever the number of words.
C18_SegmentsPartitionWords ==
    segments.pc = "done" =>
        /\ Len(segments.segments) = segments.num_segments
        /\ \A j \in 1..Len(segments.segments) :
              segments.segments[j].start <= segments.segments[j].end
        /\ \A j \in 1..(Len(segments.segments) - 1) :
              segments.segments[j].end = segments.segments[j + 1].start
        /\ \A w \in 0..(segments.total_words - 1) :
              Cardinality(SegmentsOf(w)) = 1

\* what two of the four loops do keep: ImprovedSummaryAgent's and the one
\* that adds the missing key points cut all the words into N segments
C18_HoldsOfTwoImplementations ==
    segments.impl \in {"improved", "openai_missing"} =>
        C18_SegmentsPartitionWords

\* the timestamp of key point i (counted from 0) in whole seconds
SecondsOf(i) ==
    segments.timestamps[i + 1].minutes * 60 + segments.timestamps[i + 1].seconds

\* C19: the synthetic timestamp m:ss of segment i is i * 10 / N minutes
\* rounded down to whole seconds, m * 60 + ss = floor(600 * i / N), with ss
\* in 0..59; timestamps never decrease with i, and increase strictly when
\* N <= 60.
C19_TimestampIsTenMinutesShare ==
    \A i \in 0..(Len(segments.timestamps) - 1) :
        /\ SecondsOf(i) = (600 * i) \div segments.num_segments
        /\ segments.timestamps[i + 1].seconds \in 0..59
        /\ i > 0 => SecondsOf(i - 1) <= SecondsOf(i)
        /\ (i > 0 /\ segments.num_segments <= 60) => SecondsOf(i - 1) < SecondsOf(i)

\* what the timestamps do keep: ss is in 0..59 and never above the exact
\* share of the minute, equal to it when N divides 60, and the timestamps
\* increase strictly
C19_TimestampWithinTheSecondsOfItsMinute ==
    \A i \in 0..(Len(segments.timestamps) - 1) :
        LET remainder == (i * 10) % segments.num_segments
            seconds == segments.timestamps[i + 1].seconds IN
        /\ seconds \in 0..59
        /\ seconds <= exact_seconds(remainder, segments.num_segments)
        /\ 60 % segments.num_segments = 0 =>
              SecondsOf(i) = (600 * i) \div segments.num_segments
        /\ i > 0 => SecondsOf(i - 1) < SecondsOf(i)

(***************************************************************************)
(* api_server.generate_timeline_suggestions.  Keyword i of the query is    *)
(* the one-token text <<i>> and the text of a transcript entry is the      *)
(* sequence of the keywords it holds, so that calculate_relevance scores   *)
(* it as it scores any text.  A suggestion names the entry it was made of, *)
(* from which its timestamp and text are taken, and its relevance label.   *)
(***************************************************************************)
MaxEntries == 6

MaxSuggestions == 5
MediumAboveTenths == 3
HighAboveTenths == 7

\* the numbers of keywords that extract_keywords_from_query leaves of the
\* query: none, or ten, of which an entry can hold exactly 3 or 7
QueryKeywordCounts == {0, 10}

\* the numbers of keywords an entry holds
EntryKeywordCounts == {3, 4, 7, 8}

QueryKeywords(n) == [i \in 1..n |-> <<i>>]

EntryText(matches) == [i \in 1..matches |-> i]

TimelineTranscripts ==
    UNION {[1..n -> {EntryText(m) : m \in EntryKeywordCounts}] : n \in 0..MaxEntries}

\* relevance_score > tenths / 10
ScoreAbove(score, tenths) == score.num * 10 > tenths * score.den

\* "high" if relevance_score > 0.7 else "medium"
relevance_label(score) ==
    IF ScoreAbove(score, HighAboveTenths) THEN "high" ELSE "medium"

\* a sort that puts the "medium" suggestions first
medium_first(suggestions) ==
    SelectSeq(suggestions, LAMBDA x : x.relevance # "high")
        \o SelectSeq(suggestions, LAMBDA x : x.relevance = "high")

\* suggestions.sort(key=lambda x: 1 if x["relevance"] == "high" else 0,
\* reverse=True): list.sort is stable, also with reverse=True
sort_high_first(suggestions) ==
    SelectSeq(suggestions, LAMBDA x : x.relevance = "high")
        \o SelectSeq(suggestions, LAMBDA x : x.relevance # "high")

\* suggestions[:5]
Limit(suggestions, n) ==
    SubSeq(suggestions, 1, IF Len(suggestions) < n THEN Len(suggestions) ELSE n)

TimelineInit ==
    /\ \E transcript \in TimelineTranscripts, n \in QueryKeywordCounts :
          timeline = [pc |-> "start", transcript |-> transcript,
                      keywords |-> QueryKeywords(n), entry |-> 1,
                      suggestions |-> <<>>, result |-> <<>>]
    /\ IdleBut("timeline")

\* if not transcript: return []
TimelineNoTranscript ==
    /\ timeline.pc = "start"
    /\ timeline.transcript = <<>>
    /\ timeline' = [timeline EXCEPT !.pc = "done"]
    /\ Frame("timeline")

\* keywords = extract_keywords_from_query(query.lower())
TimelineExtractKeywords ==
    /\ timeline.pc = "start"
    /\ timeline.transcript # <<>>
    /\ timeline' = [timeline EXCEPT !.pc = "scan"]
    /\ Frame("timeline")

\* one turn of `for entry in transcript_list`: the entry is scored and
\* becomes a suggestion when its score is above 0.3
TimelineScanEntry ==
    /\ timeline.pc = "scan"
    /\ timeline.entry <= Len(timeline.transcript)
    /\ LET relevance_score ==
               calculate_relevance(timeline.transcript[timeline.entry],
                                   timeline.keywords)
       IN timeline' = [timeline EXCEPT
              !.suggestions =
                  IF ScoreAbove(relevance_score, MediumAboveTenths)
                  THEN Append(@, [entry |-> timeline.entry,
                                  relevance |-> relevance_label(relevance_score)])
                  ELSE @,
              !.entry = @ + 1]
    /\ Frame("timeline")

\* after the loop: the sort and return suggestions[:5]
TimelineSortAndLimit ==
    /\ timeline.pc = "scan"
    /\ timeline.entry > Len(timeline.transcript)
    /\ timeline' = [timeline EXCEPT
           !.suggestions = sort_high_first(@),
           !.result = Limit(sort_high_first(timeline.suggestions),
                            MaxSuggestions),
           !.pc = "done"]
    /\ Frame("timeline")

TimelineNext ==
    \/ TimelineNoTranscript \/ TimelineExtractKeywords
    \/ TimelineScanEntry \/ TimelineSortAndLimit

SpecTimeline == TimelineInit /\ [][TimelineNext]_vars

\* the score of entry j of the transcript
EntryScore(j) == calculate_relevance(timeline.transcript[j], timeline.keywords)

\* the entries that score above 0.7
HighEntries ==
    {j \in 1..Len(timeline.transcript) : ScoreAbove(EntryScore(j), HighAboveTenths)}

\* C20: generate_timeline_suggestions returns at most 5 suggestions, each
\* of a transcript entry scoring above 0.3, labelled "high" exactly when
\* the score is above 0.7 and "medium" otherwise; every "high" one comes
\* before every "medium" one, and a "medium" one is returned only when no
\* "high" one is left out.
C20_TimelineSuggestions ==
    timeline.pc = "done" =>
        LET result == timeline.result IN
        /\ Len(result) <= 5
        /\ \A i \in 1..Len(result) :
              /\ ScoreAbove(EntryScore(result[i].entry), MediumAboveTenths)
              /\ result[i].relevance =
                     IF ScoreAbove(EntryScore(result[i].entry), HighAboveTenths)
                     THEN "high" ELSE "medium"
        /\ \A i \in 1..Len(result), j \in 1..Len(result) :
              (result[i].relevance = "high" /\ result[j].relevance = "medium")
                  => i < j
        /\ (\E i \in 1..Len(result) : result[i].relevance = "medium") =>
              HighEntries \subseteq {result[i].entry : i \in 1..Len(result)}

\* six entries score above 0.3, a "high" one after "medium" ones among
\* them: 5 are returned, the "high" one first, and a "medium" one is left
\* out
C20_Witness ==
    /\ timeline.pc = "done"
    /\ Len(timeline.suggestions) = 6
    /\ Len(timeline.result) = 5
    /\ timeline.result[1].relevance = "high"
    /\ timeline.result[1].entry > 1
    /\ timeline.result[5].relevance = "medium"

(***************************************************************************)
(* The comparison pipeline: AgentOrchestrator.compare_videos runs          *)
(* summarize_video on each video id in turn and then hands the summaries   *)
(* to the comparison agent.  events is the log of what happened, in order. *)
(***************************************************************************)
MaxVideos == 3

Event(e, video) == [e |-> e, video |-> video]

\* a loop that ends after its first turn
loop_ends_early(i, video_ids) == i > 1

\* `for video_id in video_ids:` has no video left
loop_ends(i, video_ids) == i > Len(video_ids)

PipelineInit ==
    /\ \E n \in 2..MaxVideos, agents_available \in BOOLEAN,
          comparison_service \in BOOLEAN, api_key \in BOOLEAN :
          pipeline = [pc |-> "transcript", video_ids |-> [i \in 1..n |-> i],
                      agents_available |-> agents_available,
                      comparison_service |-> comparison_service,
                      api_key |-> api_key, i |-> 1, summaries |-> <<>>,
                      events |-> <<>>]
    /\ IdleBut("pipeline")

\* summarize_video, step 1: transcript = self.transcript_agent.process(id).
\* A failing fetch raises out of compare_videos with the improved agent and
\* gives the placeholder transcript with the fallback agent
PipelineTranscript ==
    /\ pipeline.pc = "transcript"
    /\ ~loop_ends(pipeline.i, pipeline.video_ids)
    /\ \E fetched \in BOOLEAN :
          pipeline' = [pipeline EXCEPT
              !.events = Append(@, Event(IF fetched THEN "transcript"
                                         ELSE "transcript failed",
                                         pipeline.video_ids[pipeline.i])),
              !.pc = IF ~fetched /\ pipeline.agents_available THEN "raised"
                     ELSE "summary"]
    /\ Frame("pipeline")

\* summarize_video, step 2: summary = self.summary_agent.process(...), which
\* raises when something other than the completion endpoint fails;
\* summaries.append(summary) and the next video
PipelineSummary ==
    /\ pipeline.pc = "summary"
    /\ \E raises \in BOOLEAN :
          pipeline' =
              IF raises
              THEN [pipeline EXCEPT
                       !.events = Append(@, Event("summary failed",
                                                  pipeline.video_ids[pipeline.i])),
                       !.pc = "raised"]
              ELSE [pipeline EXCEPT
                       !.events = Append(@, Event("summary",
                                                  pipeline.video_ids[pipeline.i])),
                       !.summaries = Append(@, pipeline.video_ids[pipeline.i]),
                       !.i = @ + 1,
                       !.pc = "transcript"]
    /\ Frame("pipeline")

\* comparison = self.comparison_agent.process(summaries): with the service
\* and a key, VideoComparisonService.compare_videos makes its one request;
\* otherwise the fallback comparison is built without a request
PipelineCompare ==
    /\ pipeline.pc = "transcript"
    /\ loop_ends(pipeline.i, pipeline.video_ids)
    /\ pipeline' = [pipeline EXCEPT
           !.events = IF pipeline.comparison_service /\ pipeline.api_key
                      THEN Append(@, Event("comparison request", 0))
                      ELSE @,
           !.pc = "done"]
    /\ Frame("pipeline")

PipelineNext == PipelineTranscript \/ PipelineSummary \/ PipelineCompare

SpecPipeline == PipelineInit /\ [][PipelineNext]_vars

\* the places of the log that hold event e of the video
EventsAt(e, video) ==
    {k \in 1..Len(pipeline.events) : pipeline.events[k] = Event(e, video)}

ComparisonRequests == EventsAt("comparison request", 0)

\* C21: the videos are processed one after another in request order, the
\* transcript of a video and then its summary before the next video starts;
\* the comparison request is made once, after the summaries of all videos
\* (when the comparison service has a key to make it with), and not at all
\* when summarizing a video raised.
C21_SequentialThenOneComparison ==
    /\ \A k \in 1..Len(pipeline.events) :
          LET event == pipeline.events[k] IN
          /\ event.e \in {"transcript", "transcript failed"} =>
                /\ event.video = (k + 1) \div 2
                /\ k % 2 = 1
          /\ event.e \in {"summary", "summary failed"} =>
                /\ event.video = k \div 2
                /\ pipeline.events[k - 1].video = event.video
          /\ event.e = "comparison request" =>
                /\ k = Len(pipeline.events)
                /\ \A v \in 1..Len(pipeline.video_ids) :
                      \E j \in 1..(k - 1) : pipeline.events[j] = Event("summary", v)
    /\ Cardinality(ComparisonRequests) <= 1
    /\ pipeline.pc = "raised" => ComparisonRequests = {}
    /\ (pipeline.pc = "done" /\ pipeline.comparison_service /\ pipeline.api_key)
          => Cardinality(ComparisonRequests) = 1

\* all the videos were summarized, one of them from the placeholder
\* transcript, and the comparison request was made
C21_Witness ==
    /\ pipeline.pc = "done"
    /\ Len(pipeline.video_ids) = MaxVideos
    /\ ComparisonRequests # {}
    /\ EventsAt("transcript failed", 2) # {}

\* the requests of the summary retry loop, as places of its log
RequestsAt == {k \in DOMAIN generation.events : generation.events[k] = "request"}

\* a wait was logged between places k and l of the log
SleepBetween(k, l) ==
    \E m \in (k + 1)..(l - 1) : generation.events[m] = "sleep"

\* C22: in a retry loop a 2-second wait separates every two consecutive
\* attempts, whether the earlier one raised or returned a short or empty
\* response, and no wait follows the last attempt.
C22_WaitBetweenAttempts ==
    /\ \A k \in RequestsAt, l \in RequestsAt : k < l => SleepBetween(k, l)
    /\ generation.pc = "done" =>
          (generation.events = <<>>
              \/ generation.events[Len(generation.events)] # "sleep")

\* what the loops do: the wait follows exactly the attempts that raised and
\* were not the last, so none follows a short or empty response
C22_WaitOnlyAfterRaise ==
    \A k \in DOMAIN generation.events :
        generation.events[k] = "sleep" =>
            /\ generation.events[k - 1] = "raised"
            /\ CountIn(SubSeq(generation.events, 1, k), "request") < max_retries

\* C23: generative key-point extraction makes exactly one completion
\* request for each invocation; it is not retried, and a failed response
\* leads to the extractive fallback at once.
C23_OneKeyPointRequest ==
    /\ CountIn(keypoints.events, "request") <= 1
    /\ (keypoints.pc = "done" /\ keypoints.api_key
           /\ keypoints.transcript_words >= ShortTranscriptWords)
          => CountIn(keypoints.events, "request") = 1

\* what extract_key_points_with_openai does: up to max_retries requests,
\* and fewer than that only when one of them gave at least 3 key points
C23_KeyPointRequestsAreRetried ==
    /\ CountIn(keypoints.events, "request") <= max_retries
    /\ (keypoints.pc = "done" /\ keypoints.result = None /\ keypoints.api_key)
          => CountIn(keypoints.events, "request") = max_retries

(***************************************************************************)
(* OpenAISummarizer._simple_summarize, the extractive summary that         *)
(* summarize falls back to.  A text is the sequence of the word counts of  *)
(* its sentences, numbered from 0 as in the code; importance is kept       *)
(* times 40, a whole number.                                               *)
(***************************************************************************)
MaxSimpleSentences == 5

SimpleSentenceWords == {5, 25, 151, 301}

\* max_words: max_length of summarize, halved for the chunks of a long text
SimpleMaxWords == {150, 300}

SimpleTexts ==
    UNION {[0..(n - 1) -> SimpleSentenceWords] : n \in 1..MaxSimpleSentences}

\* pos_importance * min(1.0, len(sentence.split()) / 20.0), times 40: the
\* first 20% of the sentences count 2.0, the last 20% count 1.5
importance(i, sentences) ==
    LET n == Cardinality(DOMAIN sentences)
        pos_importance == IF 5 * i < n THEN 4
                          ELSE IF 5 * i > 4 * n THEN 3
                          ELSE 2
        length_importance == SmallerOf(20, sentences[i])
    IN pos_importance * length_importance

\* sorted(range(len(sentences)), key=lambda i: importance[i], reverse=True):
\* the sort is stable, sentences of equal importance keep their order
sorted_sentences(sentences) ==
    LET before(j, i) ==
            \/ importance(j, sentences) > importance(i, sentences)
            \/ importance(j, sentences) = importance(i, sentences) /\ j < i
        rank(i) == Cardinality({j \in DOMAIN sentences : before(j, i)}) + 1
    IN [r \in 1..Cardinality(DOMAIN sentences) |->
           CHOOSE i \in DOMAIN sentences : rank(i) = r]

ExtractiveInit ==
    /\ \E sentences \in SimpleTexts, max_words \in SimpleMaxWords :
          extractive = [pc |-> "start", sentences |-> sentences,
                        max_words |-> max_words, sorted |-> <<>>, next |-> 1,
                        selected_indices |-> {}, word_count |-> 0,
                        summary |-> <<>>, whole_text |-> FALSE]
    /\ IdleBut("extractive")

\* if len(sentences) <= 3: return text
SimpleReturnsText ==
    /\ extractive.pc = "start"
    /\ Cardinality(DOMAIN extractive.sentences) <= 3
    /\ extractive' = [extractive EXCEPT
           !.pc = "done", !.whole_text = TRUE,
           !.summary = [k \in 1..Cardinality(DOMAIN extractive.sentences)
                           |-> k - 1]]
    /\ Frame("extractive")

\* the importance of every sentence and the sort by it
SimpleSortSentences ==
    /\ extractive.pc = "start"
    /\ Cardinality(DOMAIN extractive.sentences) > 3
    /\ extractive' = [extractive EXCEPT
           !.pc = "select", !.sorted = sorted_sentences(extractive.sentences)]
    /\ Frame("extractive")

\* one turn of `for i in sorted_sentences:` that takes the sentence
SimpleSelectSentence ==
    /\ extractive.pc = "select"
    /\ extractive.next <= Len(extractive.sorted)
    /\ LET i == extractive.sorted[extractive.next]
           sentence_words == extractive.sentences[i] IN
       /\ extractive.word_count + sentence_words <= extractive.max_words
       /\ extractive' = [extractive EXCEPT
              !.selected_indices = @ \cup {i},
              !.word_count = @ + sentence_words,
              !.next = @ + 1]
    /\ Frame("extractive")

\* the loop ends, at its `break` on the first sentence that does not fit or
\* with no sentence left: the selected sentences are joined in text order
SimpleJoinSelected ==
    /\ extractive.pc = "select"
    /\ IF extractive.next > Len(extractive.sorted) THEN TRUE
       ELSE extractive.word_count
                + extractive.sentences[extractive.sorted[extractive.next]]
              > extractive.max_words
    /\ extractive' = [extractive EXCEPT
           !.pc = "done",
           !.summary = SelectSeq([k \in 1..Cardinality(DOMAIN extractive.sentences)
                                     |-> k - 1],
                                 LAMBDA i : i \in extractive.selected_indices)]
    /\ Frame("extractive")

ExtractiveNext ==
    \/ SimpleReturnsText \/ SimpleSortSentences
    \/ SimpleSelectSentence \/ SimpleJoinSelected

SpecExtractive == ExtractiveInit /\ [][ExtractiveNext]_vars

\* C24: for a non-empty text the extractive fallback returns a non-empty
\* summary: when the selection of sentences comes out empty it returns the
\* text itself, truncated, instead.
C24_ExtractiveSummaryNonEmpty ==
    extractive.pc = "done" =>
        \/ extractive.summary # <<>>
        \/ extractive.whole_text

\* what _simple_summarize does keep: the sentences it returns are sentences
\* of the text in their order, within max_words unless the text has at most
\* 3 sentences
C24_SelectionWithinBudget ==
    (extractive.pc = "done" /\ ~extractive.whole_text) =>
        /\ extractive.word_count <= extractive.max_words
        /\ \A k \in 1..(Len(extractive.summary) - 1) :
              extractive.summary[k] < extractive.summary[k + 1]

(***************************************************************************)
(* POST /api/summarize of simple_app.py under concurrent requests.  The    *)
(* endpoint is a plain `def`, which the server runs in a thread pool, each *)
(* request with a database session of its own: every repository call is   *)
(* one step, and the steps of different requests interleave.  All requests *)
(* are for the same video and, when they name a user, the same user.       *)
(***************************************************************************)
MaxRequests == 2

FREE_LIMITS == 5
PRO_LIMITS == 100

Urls == {"https://youtu.be/<id>", "no video id"}

\* extract_video_id that finds an id in every url
extract_any_video_id(url) == "<id>"

\* extract_video_id(url): the id that one of the patterns finds, else None
extract_video_id(url) == IF url = "https://youtu.be/<id>" THEN "<id>" ELSE "None"

\* PRO_LIMITS["videos_summarized"] if user_role == "pro" else FREE_LIMITS[...]
summarization_limit(user_role) ==
    IF user_role = "pro" THEN PRO_LIMITS ELSE FREE_LIMITS

Request(url, with_user) ==
    [pc |-> "check limit", url |-> url, with_user |-> with_user, status |-> 0,
     stats_read |-> 0, writes |-> 0, pipeline |-> 0, cached |-> FALSE]

EndpointInit ==
    /\ \E user_role \in {"free", "pro"}, below \in 0..2,
          stored \in BOOLEAN,
          requests \in [1..MaxRequests -> {Request(url, with_user) :
                                              url \in Urls, with_user \in BOOLEAN}] :
          endpoint = [pc |-> "serving", user_role |-> user_role,
                      videos_summarized |-> summarization_limit(user_role) - below,
                      videos |-> IF stored THEN 1 ELSE 0,
                      summaries |-> IF stored THEN 1 ELSE 0,
                      key_points |-> IF stored THEN 1 ELSE 0,
                      used_at_start |-> summarization_limit(user_role) - below,
                      increments |-> 0,
                      requests |-> requests]
    /\ IdleBut("endpoint")

\* allowed, limit_info = usage_limits.check_summarization_limit(db, user_id)
\* when the request names a user: 403 when used >= limit
EndpointCheckLimit(r) ==
    /\ endpoint.requests[r].pc = "check limit"
    /\ LET allowed == endpoint.videos_summarized
                          < summarization_limit(endpoint.user_role) IN
       endpoint' =
           IF endpoint.requests[r].with_user /\ ~allowed
           THEN [endpoint EXCEPT !.requests[r].pc = "done",
                                 !.requests[r].status = 403]
           ELSE [endpoint EXCEPT !.requests[r].pc = "extract"]
    /\ Frame("endpoint")

\* video_id = extract_video_id(request.url); 400 without a video id
EndpointExtractVideoId(r) ==
    /\ endpoint.requests[r].pc = "extract"
    /\ endpoint' =
           IF extract_video_id(endpoint.requests[r].url) = "None"
           THEN [endpoint EXCEPT !.requests[r].pc = "done",
                                 !.requests[r].status = 400]
           ELSE [endpoint EXCEPT !.requests[r].pc = "get video"]
    /\ Frame("endpoint")

\* db_video = repo.get_video_by_youtube_id(db, video_id)
EndpointGetVideo(r) ==
    /\ endpoint.requests[r].pc = "get video"
    /\ endpoint' = [endpoint EXCEPT
           !.requests[r].pc = IF endpoint.videos = 0 THEN "create video"
                              ELSE "get summary"]
    /\ Frame("endpoint")

\* repo.create_video(...): videos.video_id is unique, so the insert of a
\* second row for the video raises and the request ends with status 500
EndpointCreateVideo(r) ==
    /\ endpoint.requests[r].pc = "create video"
    /\ endpoint' =
           IF endpoint.videos = 0
           THEN [endpoint EXCEPT !.videos = 1,
                                 !.requests[r].writes = @ + 1,
                                 !.requests[r].pc = "get summary"]
           ELSE [endpoint EXCEPT !.requests[r].pc = "done",
                                 !.requests[r].status = 500]
    /\ Frame("endpoint")

\* db_summary = repo.get_summary_by_video_id(db, db_video.id): a stored
\* summary is returned with its key points
EndpointGetSummary(r) ==
    /\ endpoint.requests[r].pc = "get summary"
    /\ endpoint' =
           IF endpoint.summaries > 0
           THEN [endpoint EXCEPT !.requests[r].pc = "done",
                                 !.requests[r].status = 200,
                                 !.requests[r].cached = TRUE]
           ELSE [endpoint EXCEPT !.requests[r].pc = "summarize"]
    /\ Frame("endpoint")

\* summary = orchestrator.summarize_video(video_id)
EndpointSummarize(r) ==
    /\ endpoint.requests[r].pc = "summarize"
    /\ endpoint' = [endpoint EXCEPT !.requests[r].pipeline = @ + 1,
                                    !.requests[r].pc = "create summary"]
    /\ Frame("endpoint")

\* repo.create_summary(...) and repo.create_key_point(...) for its key
\* points: video_summaries.video_id is not unique
EndpointCreateSummary(r) ==
    /\ endpoint.requests[r].pc = "create summary"
    /\ endpoint' = [endpoint EXCEPT
           !.summaries = @ + 1,
           !.key_points = @ + 1,
           !.requests[r].writes = @ + 1,
           !.requests[r].pc = IF endpoint.requests[r].with_user
                              THEN "read stats" ELSE "done",
           !.requests[r].status = IF endpoint.requests[r].with_user
                                  THEN @ ELSE 200]
    /\ Frame("endpoint")

\* repo.increment_videos_summarized, its query: the session loads the
\* counter of the user
EndpointReadStats(r) ==
    /\ endpoint.requests[r].pc = "read stats"
    /\ endpoint' = [endpoint EXCEPT
           !.requests[r].stats_read = endpoint.videos_summarized,
           !.requests[r].pc = "write stats"]
    /\ Frame("endpoint")

\* repo.increment_videos_summarized, stats.videos_summarized += 1 and
\* db.commit(): the value computed from what the session loaded is written
EndpointWriteStats(r) ==
    /\ endpoint.requests[r].pc = "write stats"
    /\ endpoint' = [endpoint EXCEPT
           !.videos_summarized = endpoint.requests[r].stats_read + 1,
           !.increments = @ + 1,
           !.requests[r].writes = @ + 1,
           !.requests[r].pc = "done",
           !.requests[r].status = 200]
    /\ Frame("endpoint")

EndpointNext ==
    \E r \in 1..MaxRequests :
        \/ EndpointCheckLimit(r) \/ EndpointExtractVideoId(r)
        \/ EndpointGetVideo(r) \/ EndpointCreateVideo(r)
        \/ EndpointGetSummary(r) \/ EndpointSummarize(r)
        \/ EndpointCreateSummary(r)
        \/ EndpointReadStats(r) \/ EndpointWriteStats(r)

SpecEndpoint == EndpointInit /\ [][EndpointNext]_vars

\* C25: under any interleaving of the requests for a video at most one
\* video row and at most one summary row are created, and a request that
\* finds a stored summary returns it without running the pipeline.
C25_OneVideoRowOneSummaryRow ==
    /\ endpoint.videos <= 1
    /\ endpoint.summaries <= 1
    /\ \A r \in 1..MaxRequests :
          endpoint.requests[r].cached => endpoint.requests[r].pipeline = 0

\* what the endpoint does keep of C25: one video row at most, by the unique
\* column, and no pipeline run for a request that found a stored summary
C25_OneVideoRow ==
    /\ endpoint.videos <= 1
    /\ \A r \in 1..MaxRequests :
          endpoint.requests[r].cached => endpoint.requests[r].pipeline = 0

\* C26: a request whose url yields no video identifier is rejected with
\* status 400 and changes nothing: it creates no row, increments no usage
\* counter, and runs no transcript fetch or completion request.
C26_NoVideoIdIs400AndChangesNothing ==
    \A r \in 1..MaxRequests :
        endpoint.requests[r].url = "no video id" =>
            /\ endpoint.requests[r].writes = 0
            /\ endpoint.requests[r].pipeline = 0
            /\ endpoint.requests[r].pc = "done" =>
                   endpoint.requests[r].status = 400

\* C26 as the endpoint keeps it: the limit of the user is checked before
\* the url is looked at, so the request is rejected with 403 when it names a
\* user whose limit is reached and with 400 otherwise, and in both cases it
\* changes nothing.
C26_NoVideoIdIsRejectedAndChangesNothing ==
    \A r \in 1..MaxRequests :
        endpoint.requests[r].url = "no video id" =>
            /\ endpoint.requests[r].writes = 0
            /\ endpoint.requests[r].pipeline = 0
            /\ endpoint.requests[r].pc = "done" =>
                   /\ endpoint.requests[r].status \in {400, 403}
                   /\ endpoint.requests[r].status = 403 =>
                          /\ endpoint.requests[r].with_user
                          /\ endpoint.videos_summarized
                                 >= summarization_limit(endpoint.user_role)
                   /\ ~endpoint.requests[r].with_user =>
                          endpoint.requests[r].status = 400

\* a request without a video id was rejected with 400 while another request
\* stored a summary
C26_Witness ==
    \E r, q \in 1..MaxRequests :
        /\ endpoint.requests[r].url = "no video id"
        /\ endpoint.requests[r].pc = "done"
        /\ endpoint.requests[r].status = 400
        /\ endpoint.requests[q].pc = "done"
        /\ endpoint.requests[q].writes > 0

\* C27: under every interleaving the videos_summarized counter of the user
\* never exceeds the limit of the role, a request that arrives at the limit
\* is rejected with 403 without summarizing or incrementing, and no
\* increment is lost.
C27_CounterWithinLimit ==
    /\ endpoint.videos_summarized <= summarization_limit(endpoint.user_role)
    /\ endpoint.videos_summarized
           = endpoint.used_at_start + endpoint.increments
    /\ \A r \in 1..MaxRequests :
          endpoint.requests[r].status = 403 =>
              /\ endpoint.requests[r].writes = 0
              /\ endpoint.requests[r].pipeline = 0

\* the part of C27 that holds: a request rejected with 403 named a user,
\* did not summarize and did not increment
C27_RejectedChangesNothing ==
    \A r \in 1..MaxRequests :
        endpoint.requests[r].status = 403 =>
            /\ endpoint.requests[r].with_user
            /\ endpoint.requests[r].writes = 0
            /\ endpoint.requests[r].pipeline = 0

(***************************************************************************)
(* routers/background_tasks.py: the task id handed out for a cached        *)
(* result, and what check_task_status makes of it.  A string is a sequence *)
(* of characters; the prefix "cached_" is one element of a task id.        *)
(***************************************************************************)
MaxIdLen == 2
MaxCompared == 2

\* characters of a video id, which may hold letters, digits, '_' and '-'
IdChars == {"-", "_", "a", "b"}

\* code points, the order sorted() compares strings by
Ord(c) == CASE c = "-" -> 45 [] c = "_" -> 95 [] c = "a" -> 97 [] OTHER -> 98

VideoIds == UNION {[1..n -> IdChars] : n \in 1..MaxIdLen}

RECURSIVE str_less(_, _)
\* s < t for strings
str_less(s, t) ==
    IF t = <<>> THEN FALSE
    ELSE IF s = <<>> THEN TRUE
    ELSE IF Head(s) # Head(t) THEN Ord(Head(s)) < Ord(Head(t))
    ELSE str_less(Tail(s), Tail(t))

RECURSIVE sorted_ids(_)
\* sorted(video_ids)
sorted_ids(ids) ==
    IF ids = <<>> THEN <<>>
    ELSE LET least == CHOOSE i \in 1..Len(ids) :
                          \A j \in 1..Len(ids) : ~str_less(ids[j], ids[i])
         IN <<ids[least]>>
                \o sorted_ids([k \in 1..(Len(ids) - 1) |->
                                  IF k < least THEN ids[k] ELSE ids[k + 1]])

RECURSIVE dash_join(_)
\* "-".join(ids)
dash_join(ids) ==
    IF ids = <<>> THEN <<>>
    ELSE IF Len(ids) = 1 THEN ids[1]
    ELSE ids[1] \o <<"-">> \o dash_join(Tail(ids))

RECURSIVE dash_split(_)
\* resource_id.split("-")
dash_split(str) ==
    IF \A i \in 1..Len(str) : str[i] # "-" THEN <<str>>
    ELSE LET at == CHOOSE i \in 1..Len(str) :
                       /\ str[i] = "-"
                       /\ \A j \in 1..(i - 1) : str[j] # "-"
         IN <<SubSeq(str, 1, at - 1)>>
                \o dash_split(SubSeq(str, at + 1, Len(str)))

Contains(str, c) == \E i \in 1..Len(str) : str[i] = c

CacheKey(key_type, identifier) ==
    [key_type |-> key_type, identifier |-> identifier]

\* cache_service.get_summary(video_id): the entry, or None
get_summary(cache, video_id) ==
    IF CacheKey("summary", video_id) \in cache
    THEN CacheKey("summary", video_id) ELSE CacheKey("None", <<>>)

\* cache_service.get_comparison(video_ids): the entry under the sorted ids
\* joined by '-', or None
get_comparison(cache, video_ids) ==
    LET comparison_id == dash_join(sorted_ids(video_ids)) IN
    IF CacheKey("comparison", comparison_id) \in cache
    THEN CacheKey("comparison", comparison_id) ELSE CacheKey("None", <<>>)

TaskStatus(task_id, status, result) ==
    [task_id |-> task_id, status |-> status, result |-> result]

\* the cache holds what cache_summary and cache_comparison stored for the
\* requested resource, or nothing
TasksInit ==
    /\ \E kind \in {"summary", "comparison"}, video_id \in VideoIds,
          n \in 2..MaxCompared, stored \in BOOLEAN :
          \E video_ids \in [1..n -> VideoIds] :
              tasks = [pc |-> "request", kind |-> kind,
                       video_id |-> IF kind = "summary" THEN video_id ELSE <<>>,
                       video_ids |-> IF kind = "summary" THEN <<>> ELSE video_ids,
                       cache |-> IF ~stored THEN {}
                                 ELSE IF kind = "summary"
                                 THEN {CacheKey("summary", video_id)}
                                 ELSE {CacheKey("comparison",
                                           dash_join(sorted_ids(video_ids)))},
                       expired |-> FALSE,
                       created |-> TaskStatus(<<>>, "", CacheKey("None", <<>>)),
                       checked |-> TaskStatus(<<>>, "", CacheKey("None", <<>>))]
    /\ IdleBut("tasks")

TasksCreateSummaryTask ==
    /\ tasks.pc = "request"
    /\ tasks.kind = "summary"
    /\ LET cached_summary == get_summary(tasks.cache, tasks.video_id) IN
       tasks' = [tasks EXCEPT
           !.pc = "created",
           !.created =
               IF cached_summary.key_type # "None"
               THEN TaskStatus(<<"cached_">> \o tasks.video_id, "COMPLETED",
                               cached_summary)
               ELSE TaskStatus(<<"task.id">>, "STARTED", cached_summary)]
    /\ Frame("tasks")

TasksCreateComparisonTask ==
    /\ tasks.pc = "request"
    /\ tasks.kind = "comparison"
    /\ LET cached_comparison == get_comparison(tasks.cache, tasks.video_ids)
           comparison_id == dash_join(sorted_ids(tasks.video_ids)) IN
       tasks' = [tasks EXCEPT
           !.pc = "created",
           !.created =
               IF cached_comparison.key_type # "None"
               THEN TaskStatus(<<"cached_">> \o comparison_id, "COMPLETED",
                               cached_comparison)
               ELSE TaskStatus(<<"task.id">>, "STARTED", cached_comparison)]
    /\ Frame("tasks")

\* the entry expires or the cache is cleared before the status is asked for
TasksExpire ==
    /\ tasks.pc = "created"
    /\ tasks.cache # {}
    /\ tasks' = [tasks EXCEPT !.cache = {}, !.expired = TRUE]
    /\ Frame("tasks")

\* check_task_status(task_id) for the task id that was handed out
TasksCheckStatus ==
    /\ tasks.pc = "created"
    /\ LET task_id == tasks.created.task_id
           resource_id == SelectSeq(task_id, LAMBDA c : c # "cached_")
           found == IF ~Contains(resource_id, "_")
                    THEN get_summary(tasks.cache, resource_id)
                    ELSE get_comparison(tasks.cache, dash_split(resource_id))
       IN
       \/ /\ Head(task_id) = "cached_"
          /\ tasks' = [tasks EXCEPT
                 !.pc = "checked",
                 !.checked = IF found.key_type # "None"
                             THEN TaskStatus(task_id, "COMPLETED", found)
                             ELSE TaskStatus(task_id, "FAILED", found)]
       \/ /\ Head(task_id) # "cached_"
          /\ \E status \in {"PENDING", "STARTED", "SUCCESS"} :
                 tasks' = [tasks EXCEPT
                     !.pc = "checked",
                     !.checked = TaskStatus(task_id, status,
                                            CacheKey("None", <<>>))]
    /\ Frame("tasks")

TasksNext ==
    \/ TasksCreateSummaryTask \/ TasksCreateComparisonTask
    \/ TasksExpire \/ TasksCheckStatus

SpecTasks == TasksInit /\ [][TasksNext]_vars

\* C28: a task id handed out with status COMPLETED on a cache hit is
\* reported by check_task_status as COMPLETED with the cached result, for
\* every video id and every list of compared ids, as long as the entry has
\* not expired or been cleared in between.
C28_CachedTaskIsReportedCompleted ==
    (tasks.pc = "checked" /\ tasks.created.status = "COMPLETED"
        /\ ~tasks.expired) =>
        /\ tasks.checked.status = "COMPLETED"
        /\ tasks.checked.result = tasks.created.result

\* the cases in which the report is COMPLETED: a summary of a video whose id
\* has no '_', and a comparison in which some id has a '_' and no id has
\* a '-'
C28_CompletedForSomeIds ==
    (tasks.pc = "checked" /\ tasks.created.status = "COMPLETED"
        /\ ~tasks.expired
        /\ \/ tasks.kind = "summary" /\ ~Contains(tasks.video_id, "_")
           \/ /\ tasks.kind = "comparison"
              /\ \E i \in 1..Len(tasks.video_ids) :
                     Contains(tasks.video_ids[i], "_")
              /\ \A i \in 1..Len(tasks.video_ids) :
                     ~Contains(tasks.video_ids[i], "-")) =>
        /\ tasks.checked.status = "COMPLETED"
        /\ tasks.checked.result = tasks.created.result

(***************************************************************************)
(* generate_twitter_thread of api_server.py: the labels "Tweet k/total" of *)
(* the tweets it appends, one step per appended tweet.                     *)
(***************************************************************************)
MaxSummaryParts == 3
MaxThreadKeyPoints == 6

TweetChars == 240
TwitterKeyPoints == 5

\* lengths of the summary: up to one tweet, and exactly or just over a
\* number of full parts
SummaryLengths ==
    {0, 100} \cup {TweetChars * p : p \in 1..MaxSummaryParts}
             \cup {TweetChars * p + 1 : p \in 1..(MaxSummaryParts - 1)}

\* len([summary[i:i+240] for i in range(0, len(summary), 240)])
summary_parts(length) == (length + TweetChars - 1) \div TweetChars

\* total_tweets before the first tweet is written
first_total_tweets(key_points) ==
    2 + (IF key_points > 0 THEN SmallerOf(key_points, TwitterKeyPoints) + 1
         ELSE 0) + 1

Tweet(kind, tweet_count, total_tweets) ==
    [kind |-> kind, tweet_count |-> tweet_count, total_tweets |-> total_tweets]

ThreadInit ==
    /\ \E length \in SummaryLengths, key_points \in 0..MaxThreadKeyPoints,
          style \in {"professional", "casual"} :
          thread = [pc |-> "intro", style |-> style, summary |-> length,
                    key_points |-> key_points, thread |-> <<>>,
                    tweet_count |-> 1,
                    total_tweets |-> first_total_tweets(key_points),
                    part |-> 0, point |-> 0]
    /\ IdleBut("thread")

\* the first tweet, with the title
ThreadIntro ==
    /\ thread.pc = "intro"
    /\ thread' = [thread EXCEPT
           !.thread = Append(@, Tweet("intro", thread.tweet_count,
                                      thread.total_tweets)),
           !.tweet_count = @ + 1,
           !.pc = "summary"]
    /\ Frame("thread")

\* a summary of at most 240 characters is one tweet
ThreadSummary ==
    /\ thread.pc = "summary"
    /\ thread.summary <= TweetChars
    /\ thread' = [thread EXCEPT
           !.thread = Append(@, Tweet("summary", thread.tweet_count,
                                      thread.total_tweets)),
           !.tweet_count = @ + 1,
           !.pc = IF thread.key_points > 0 THEN "key points" ELSE "final"]
    /\ Frame("thread")

\* a longer summary is split, and every part adds one to total_tweets
ThreadSummaryPart ==
    /\ thread.pc = "summary"
    /\ thread.summary > TweetChars
    /\ thread' = [thread EXCEPT
           !.thread = Append(@, Tweet("summary", thread.tweet_count,
                                      thread.total_tweets)),
           !.tweet_count = @ + 1,
           !.total_tweets = @ + 1,
           !.part = @ + 1,
           !.pc = IF thread.part + 1 < summary_parts(thread.summary)
                  THEN "summary"
                  ELSE IF thread.key_points > 0 THEN "key points"
                  ELSE "final"]
    /\ Frame("thread")

\* the tweet that announces the key points
ThreadKeyPointsIntro ==
    /\ thread.pc = "key points"
    /\ thread.point = 0
    /\ thread' = [thread EXCEPT
           !.thread = Append(@, Tweet("key points", thread.tweet_count,
                                      thread.total_tweets)),
           !.tweet_count = @ + 1,
           !.point = 1]
    /\ Frame("thread")

\* one tweet for each of key_points[:5]
ThreadKeyPoint ==
    /\ thread.pc = "key points"
    /\ thread.point > 0
    /\ thread' = [thread EXCEPT
           !.thread = Append(@, Tweet("point", thread.tweet_count,
                                      thread.total_tweets)),
           !.tweet_count = @ + 1,
           !.point = @ + 1,
           !.pc = IF thread.point
                       < SmallerOf(thread.key_points, TwitterKeyPoints)
                  THEN "key points" ELSE "final"]
    /\ Frame("thread")

\* the final tweet; the thread is returned
ThreadFinal ==
    /\ thread.pc = "final"
    /\ thread' = [thread EXCEPT
           !.thread = Append(@, Tweet("final", thread.tweet_count,
                                      thread.total_tweets)),
           !.tweet_count = @ + 1,
           !.pc = "returned"]
    /\ Frame("thread")

ThreadNext ==
    \/ ThreadIntro \/ ThreadSummary \/ ThreadSummaryPart
    \/ ThreadKeyPointsIntro \/ ThreadKeyPoint \/ ThreadFinal

SpecThread == ThreadInit /\ [][ThreadNext]_vars

\* C29: in the returned thread the tweets are numbered consecutively and
\* the total shown on the final tweet is the number of tweets of the thread,
\* for every summary length and every number of key points.
C29_LastTweetIsNOfN ==
    thread.pc = "returned" =>
        /\ \A i \in 1..Len(thread.thread) : thread.thread[i].tweet_count = i
        /\ thread.thread[Len(thread.thread)].total_tweets = Len(thread.thread)

\* the numbering is consecutive for every input, and every total is the
\* number of tweets when the summary fits one tweet
C29_NOfNForOneTweetSummary ==
    thread.pc = "returned" =>
        /\ \A i \in 1..Len(thread.thread) : thread.thread[i].tweet_count = i
        /\ thread.summary <= TweetChars =>
               \A i \in 1..Len(thread.thread) :
                   thread.thread[i].total_tweets = Len(thread.thread)
        /\ thread.summary > TweetChars =>
               thread.thread[Len(thread.thread)].total_tweets
                   = Len(thread.thread) + 1

(***************************************************************************)
(* The chat operation of api_server.py: chat_with_video gets the           *)
(* transcript from get_transcript and hands it to                          *)
(* generate_timeline_suggestions.  A transcript entry is a record whose    *)
(* fields are the keys of the dict, and a time is a record of hours,       *)
(* minutes and seconds.                                                    *)
(***************************************************************************)
MaxChatSegments == 3

MockEntries == 10

\* start times of the segments, in seconds
ChatStarts == {0, 5, 65, 3700}

ClockTime(hours, minutes, seconds) ==
    [hours |-> hours, minutes |-> minutes, seconds |-> seconds]

TimeInSeconds(t) == t.hours * 3600 + t.minutes * 60 + t.seconds

\* get_transcript: f"{hours}:{minutes:02d}:{seconds:02d}" of item['start']
formatted_time(start_seconds) ==
    ClockTime(start_seconds \div 3600, (start_seconds % 3600) \div 60,
              start_seconds % 60)

\* format_timestamp(seconds): MM:SS, or HH:MM:SS from one hour on
format_timestamp(seconds) ==
    ClockTime(seconds \div 3600, (seconds % 3600) \div 60, seconds % 60)

\* api_server.generate_mock_transcript: ten entries, five seconds apart
api_mock_transcript(text) ==
    [i \in 1..MockEntries |->
        [startTime |-> ClockTime(0, 0, 5 * (i - 1)), text |-> text]]

\* entry.get('start', 0)
entry_start(entry) == IF "start" \in DOMAIN entry THEN entry.start ELSE 0

ChatInit ==
    /\ \E n \in 1..MaxChatSegments, youtube_api_available \in BOOLEAN :
          \E transcript_list \in
                 [1..n -> [start : ChatStarts,
                           text : {EntryText(4), EntryText(8)}]] :
              chat = [pc |-> "transcript",
                      youtube_api_available |-> youtube_api_available,
                      transcript_list |-> transcript_list,
                      keywords |-> QueryKeywords(10),
                      transcript |-> <<>>, entry |-> 1,
                      suggestions |-> <<>>, result |-> <<>>]
    /\ IdleBut("chat")

\* transcript = get_transcript(video_id), of the fetched segments
ChatGetTranscript ==
    /\ chat.pc = "transcript"
    /\ chat.youtube_api_available
    /\ chat' = [chat EXCEPT
           !.pc = "scan",
           !.transcript =
               [i \in 1..Len(chat.transcript_list) |->
                   [startTime |-> formatted_time(chat.transcript_list[i].start),
                    text |-> chat.transcript_list[i].text]]]
    /\ Frame("chat")

\* transcript = get_transcript(video_id) without the transcript package, or
\* when the fetch raises: the mock transcript
ChatMockTranscript ==
    /\ chat.pc = "transcript"
    /\ chat' = [chat EXCEPT
           !.pc = "scan",
           !.transcript = api_mock_transcript(chat.transcript_list[1].text)]
    /\ Frame("chat")

\* generate_timeline_suggestions, one turn of its loop
ChatScanEntry ==
    /\ chat.pc = "scan"
    /\ chat.entry <= Len(chat.transcript)
    /\ LET entry == chat.transcript[chat.entry]
           start_time == entry_start(entry)
           relevance_score == calculate_relevance(entry.text, chat.keywords)
       IN chat' = [chat EXCEPT
              !.suggestions =
                  IF ScoreAbove(relevance_score, MediumAboveTenths)
                  THEN Append(@, [timestamp |-> format_timestamp(start_time),
                                  entry |-> chat.entry,
                                  relevance |-> relevance_label(relevance_score)])
                  ELSE @,
              !.entry = @ + 1]
    /\ Frame("chat")

\* the sort, suggestions[:5], and the response of chat_with_video
ChatReturn ==
    /\ chat.pc = "scan"
    /\ chat.entry > Len(chat.transcript)
    /\ chat' = [chat EXCEPT
           !.pc = "done",
           !.result = Limit(sort_high_first(chat.suggestions), MaxSuggestions)]
    /\ Frame("chat")

ChatNext ==
    \/ ChatGetTranscript \/ ChatMockTranscript \/ ChatScanEntry \/ ChatReturn

SpecChat == ChatInit /\ [][ChatNext]_vars

\* C30: every timeline suggestion returned by the chat operation carries,
\* as its timestamp, the start time of the transcript segment it was derived
\* from.
C30_TimestampIsSegmentStart ==
    chat.pc = "done" =>
        \A i \in 1..Len(chat.result) :
            TimeInSeconds(chat.result[i].timestamp)
                = TimeInSeconds(chat.transcript[chat.result[i].entry].startTime)

\* the timestamp of every suggestion is 00:00
C30_EveryTimestampIsZero ==
    \A i \in 1..Len(chat.suggestions) :
        TimeInSeconds(chat.suggestions[i].timestamp) = 0

====
